---- MODULE Spec2Model ----
(***************************************************************************)
(* A model of the Alamo bake-and-convert pipeline (bake_pipeline.py) and   *)
(* of the mesh validation rules (validation.py).                           *)
(*                                                                         *)
(* Four groups of state are kept side by side:                             *)
(*   - the validation rules applied to one object       (val_...)          *)
(*   - one call of save_image_as_dds on a file system   (conv_...)         *)
(*   - one call of run_pipeline on a scene              (pc, args, ...)    *)
(*   - one call of a function, argument to result       (fn_...)           *)
(* Each group has its own specification; the other groups stay idle.       *)
(*                                                                         *)
(* Names and paths are token sequences, so that suffixing, splitext and    *)
(* basename are modelled by what they do.  Vertex weights are counted in   *)
(* tenths: 10 stands for the weight 1.0, 5 for 0.5, 7 for 0.7.             *)
(***************************************************************************)
EXTENDS Integers, Sequences, FiniteSets, TLC

VARIABLES
    \* validation.py
    val_pc,          \* "input" before the rule ran, "checked" after
    val_object,      \* the object handed to the rule
    val_result,      \* the list of findings the rule returned
    \* save_image_as_dds / Texconv
    conv_pc,         \* "call" before save_image_as_dds ran, "returned" after
    conv_call,       \* the arguments of the call of save_image_as_dds
    conv_env,        \* what the host, the disk and the converter do in this call
    conv_fs,         \* the export directory: path -> content
    conv_fs0,        \* the export directory when the call was made
    conv_image,      \* the image datablock handed to save_image_as_dds
    conv_out,        \* what save_image_as_dds returned, and what it did on the way
    \* run_pipeline
    pc,              \* position in run_pipeline
    args,            \* the keyword arguments of run_pipeline
    objects,         \* the `objects` argument: ids of the source objects
    scene_objs,      \* bpy.data.objects: id -> object with its mesh
    materials,       \* bpy.data.materials: name -> material
    images,          \* the `images` dict of run_pipeline: bake type -> image
    active,          \* bpy.context.view_layer.objects.active (0: none)
    selected,        \* bpy.context.selected_objects, as a set of ids
    engine,          \* bpy.context.scene.render.engine
    fs,              \* the export directory: path -> content
    joined_obj,      \* run_pipeline local
    metadata,        \* run_pipeline local
    chan,            \* index into BakeTypes of the channel being processed
    texture_results, \* run_pipeline local: parameter name -> file name
    separated_objs,  \* run_pipeline local
    ret,             \* what run_pipeline returned (or "raised")
    log,             \* what the pipeline did, in order
    entry,           \* the ambient context when run_pipeline was entered
    touched,         \* the materials setup_baking_material put bake nodes into
    \* one call of a function of either file
    fn_pc,           \* "call" before the function ran, "returned" or "raised" after
    fn_args,         \* the arguments of the call, and what the host holds for it
    fn_ret           \* what the call returned

valVars  == <<val_pc, val_object, val_result>>
convVars == <<conv_pc, conv_call, conv_env, conv_fs, conv_fs0, conv_image, conv_out>>
pipeVars == <<pc, args, objects, scene_objs, materials, images, active, selected,
              engine, fs, joined_obj, metadata, chan, texture_results,
              separated_objs, ret, log, entry, touched>>
fnVars   == <<fn_pc, fn_args, fn_ret>>
vars     == <<valVars, convVars, pipeVars, fnVars>>

None == "None"

-----------------------------------------------------------------------------
(* Bounds of the model *)

\* most vertices of a mesh handed to a validation rule
MaxVerts == 2
\* most source objects handed to run_pipeline
MaxObjs == 2

\* line 134: the vertex-count tolerance of the name matching
Tolerance == 5

-----------------------------------------------------------------------------
(* Generic helpers *)

Range(s) == {s[i] : i \in 1..Len(s)}

RECURSIVE SumSeq(_)
SumSeq(s) == IF s = <<>> THEN 0 ELSE Head(s) + SumSeq(Tail(s))

Abs(n) == IF n < 0 THEN -n ELSE n

\* the elements of s that are not in the set drop, in order
RECURSIVE Without(_, _)
Without(s, drop) ==
    IF s = <<>> THEN <<>>
    ELSE IF Head(s) \in drop THEN Without(Tail(s), drop)
         ELSE <<Head(s)>> \o Without(Tail(s), drop)

\* s with later repetitions of an element dropped
RECURSIVE Dedup(_)
Dedup(s) ==
    IF s = <<>> THEN <<>>
    ELSE <<Head(s)>> \o Dedup(Without(Tail(s), {Head(s)}))

-----------------------------------------------------------------------------
(* Paths and the file system (os.path, os.remove, os.rename) *)

\* os.path.join(dir, filename)
JoinPath(dir, filename) == [dir |-> dir, stem |-> filename.stem, ext |-> filename.ext]
\* os.path.basename(path)
Basename(path) == [stem |-> path.stem, ext |-> path.ext]
\* os.path.dirname(path)
Dirname(path) == path.dir
\* os.path.splitext(path)[0] + suffix + "." + ext
SplitextPlus(path, suffix, ext) ==
    [dir |-> path.dir, stem |-> path.stem \o suffix, ext |-> ext]

Exists(f, path) == path \in DOMAIN f
WriteFile(f, path, content) ==
    [p \in DOMAIN f \cup {path} |-> IF p = path THEN content ELSE f[p]]
RemoveFile(f, path) == [p \in DOMAIN f \ {path} |-> f[p]]
RenameFile(f, from, to) == RemoveFile(WriteFile(f, to, f[from]), from)
EmptyFs == [p \in {} |-> None]

-----------------------------------------------------------------------------
(* validation.py: checkVertexGroups *)

\* the weights 0, 0.5, 0.7 and 1.0, in tenths
Weights == {0, 5, 7, 10}
\* the list [0, 1] of the two membership tests, in tenths
ZeroOrOne == {0, 10}
\* how many vertex groups the object may have
VertexGroupCounts == {0, 1, 2}

\* vertex.groups of a vertex given as group index -> weight or None: the
\* weights of the groups the vertex is assigned to, in group order
RECURSIVE GroupsOf(_, _)
GroupsOf(assign, i) ==
    IF i > Len(assign) THEN <<>>
    ELSE IF assign[i] = -1 THEN GroupsOf(assign, i + 1)
         ELSE <<[group |-> i, weight |-> assign[i]]>> \o GroupsOf(assign, i + 1)

\* the objects a rule is applied to: n vertex groups, and per vertex the
\* weight it has in each group (-1: not assigned to that group)
ValObjects ==
    UNION {
      UNION {
        { [name |-> <<"Mesh">>, vertex_groups |-> n,
           vertices |-> [v \in 1..k |-> GroupsOf(a[v], 1)]] :
          a \in [1..k -> [1..n -> Weights \cup {-1}]] }
        : k \in 1..MaxVerts }
      : n \in VertexGroupCounts }

ImproperVertexGroups(object) ==
    [severity |-> "ERROR",
     message  |-> <<"ALAMO - Object ">> \o object.name \o <<" has improper vertex groups">>]

\* validation.py:144  group.weight not in [0, 1]
WeightImproper_Dropped(weight) == FALSE
WeightImproper(weight) == weight \notin ZeroOrOne

\* validation.py:147  total not in [0, 1]
TotalImproper_Dropped(total) == FALSE
TotalImproper(total) == total \notin ZeroOrOne

\* the inner loop over vertex.groups: stops at the first improper weight,
\* otherwise adds the weight to the total
RECURSIVE GroupLoop(_, _, _)
GroupLoop(groups, i, total) ==
    IF i > Len(groups) THEN [returned |-> FALSE, total |-> total]
    ELSE IF WeightImproper(groups[i].weight)
         THEN [returned |-> TRUE, total |-> total]
         ELSE GroupLoop(groups, i + 1, total + groups[i].weight)

\* the outer loop over object.data.vertices
RECURSIVE VertexLoop(_, _)
VertexLoop(object, i) ==
    IF i > Len(object.vertices) THEN <<>>
    ELSE LET inner == GroupLoop(object.vertices[i], 1, 0)
         IN  IF inner.returned THEN <<ImproperVertexGroups(object)>>
             ELSE IF TotalImproper(inner.total) THEN <<ImproperVertexGroups(object)>>
             ELSE VertexLoop(object, i + 1)

checkVertexGroups(object) ==
    IF object.vertex_groups = 0 THEN <<>>
    ELSE VertexLoop(object, 1)

ValIdleInit ==
    /\ val_pc = "idle"
    /\ val_object = [name |-> <<"Mesh">>, vertex_groups |-> 0, vertices |-> <<>>]
    /\ val_result = <<>>

ValInit ==
    /\ val_pc = "input"
    /\ val_object \in ValObjects
    /\ val_result = <<>>

\* the rule is applied to the object
CheckVertexGroups ==
    /\ val_pc = "input"
    /\ val_result' = checkVertexGroups(val_object)
    /\ val_pc' = "checked"
    /\ UNCHANGED <<val_object, convVars, pipeVars, fnVars>>

-----------------------------------------------------------------------------
(* bake_pipeline.py: Texconv and save_image_as_dds *)

NoPath == [dir |-> "", stem |-> <<>>, ext |-> ""]
NoName == [stem |-> <<>>, ext |-> ""]
ExportDir == "export"

TexconvDll == [dir |-> "addons", stem |-> <<"texconv">>, ext |-> "dll"]
TexconvExe == [dir |-> "tools", stem |-> <<"texconv">>, ext |-> "exe"]

\* a path as the string handed to the converter
PathStr(path) == <<path.dir, "/">> \o path.stem \o <<".", path.ext>>
\* str(n) for the mip levels of the model
Str(n) == <<"0", "1", "2", "3", "4", "5", "6", "7", "8", "9", "10">>[n + 1]

\* What the host, the disk and the external converter do during one call:
\*   tool       what find_texconv_tool returns (NoPath: nothing found)
\*   dll_loads  whether ctypes can load the DLL
\*   outcome    of running the converter: "ok" (result 0, output written),
\*              "ok_nofile" (result 0, nothing written), "nonzero", "raise"
\*   os_ok      whether os.remove / os.rename of the output succeed
\*   rm_temp_ok whether os.remove of the temporary PNG succeeds
\*   save_temp  image.save() of the temporary PNG: "ok", "raise", or "nofile"
\*   save_final image.save() of the fallback PNG: "ok" or "raise"
Envs ==
    [tool : {NoPath, TexconvDll, TexconvExe}, dll_loads : BOOLEAN,
     outcome : {"ok", "ok_nofile", "nonzero", "raise"},
     os_ok : BOOLEAN, rm_temp_ok : BOOLEAN,
     save_temp : {"ok", "raise", "nofile"}, save_final : {"ok", "raise"}]

\* Texconv.__init__
TexconvInit(found, dll_loads) ==
    LET is_dll == found # NoPath /\ found.ext = "dll"
    IN  [path   |-> found,
         is_dll |-> is_dll /\ dll_loads,
         dll    |-> is_dll /\ dll_loads]

\* a process cannot be started from a DLL: the launch raises
ExeOutcome(self, env) == IF self.path.ext = "dll" THEN "raise" ELSE env.outcome

\* the converter writes <output_dir>/<input base name>.dds
ConverterRuns(f, input_path, output_dir, outcome) ==
    IF outcome = "ok"
    THEN WriteFile(f, [dir |-> output_dir, stem |-> input_path.stem, ext |-> "dds"],
                   [kind |-> "dds", of |-> f[input_path].of])
    ELSE f

\* lines 452-456 and 496-500: move what the converter created to output_path
MoveCreated(f, input_path, output_path, os_ok) ==
    LET created_dds == SplitextPlus(input_path, <<>>, "dds")
    IN  IF Exists(f, created_dds) /\ created_dds # output_path
        THEN IF ~os_ok
             THEN [raised |-> TRUE, fs |-> f]
             ELSE [raised |-> FALSE,
                   fs |-> RenameFile(IF Exists(f, output_path)
                                     THEN RemoveFile(f, output_path) ELSE f,
                                     created_dds, output_path)]
        ELSE [raised |-> FALSE, fs |-> f]

\* the optional flags, in the order both strategies append them
MipArgs(mipmap_levels) ==
    IF mipmap_levels = 1 THEN <<<<"-m">>, <<"1">>>>
    ELSE IF mipmap_levels > 1 THEN <<<<"-m">>, <<Str(mipmap_levels)>>>>
    ELSE <<>>

DllArgs_AlphaFirst(input_path, output_path, dds_format, use_alpha_flag, use_sepalpha, mipmap_levels) ==
    <<<<"-f">>, <<dds_format>>, <<"-y">>, <<"-o">>, <<Dirname(output_path)>>>>
    \o MipArgs(mipmap_levels)
    \o (IF use_alpha_flag THEN <<<<"-alpha">>>> ELSE <<>>)
    \o (IF use_sepalpha THEN <<<<"-sepalpha">>>> ELSE <<>>)
    \o <<<<"--">>, PathStr(input_path)>>
DllArgs(input_path, output_path, dds_format, use_alpha_flag, use_sepalpha, mipmap_levels) ==
    <<<<"-f">>, <<dds_format>>, <<"-y">>, <<"-o">>, <<Dirname(output_path)>>>>
    \o MipArgs(mipmap_levels)
    \o (IF use_sepalpha THEN <<<<"-sepalpha">>>> ELSE <<>>)
    \o (IF use_alpha_flag THEN <<<<"-alpha">>>> ELSE <<>>)
    \o <<<<"--">>, PathStr(input_path)>>

ExeCmd(self, input_path, output_path, dds_format, use_alpha_flag, use_sepalpha, mipmap_levels) ==
    <<PathStr(self.path), <<"-f">>, <<dds_format>>, <<"-y">>, <<"-o">>, <<Dirname(output_path)>>>>
    \o MipArgs(mipmap_levels)
    \o (IF use_sepalpha THEN <<<<"-sepalpha">>>> ELSE <<>>)
    \o (IF use_alpha_flag THEN <<<<"-alpha">>>> ELSE <<>>)
    \o <<PathStr(input_path)>>

\* Texconv._convert_dll
ConvertDll(self, input_path, output_path, dds_format, use_alpha_flag, use_sepalpha, mipmap_levels, f, env) ==
    LET argv == DllArgs(input_path, output_path, dds_format, use_alpha_flag,
                        use_sepalpha, mipmap_levels)
        f1   == ConverterRuns(f, input_path, Dirname(output_path), env.outcome)
    IN  IF env.outcome = "raise" THEN [ret |-> FALSE, fs |-> f, argv |-> argv]
        ELSE IF env.outcome \in {"ok", "ok_nofile"}          \* result == 0
        THEN LET moved == MoveCreated(f1, input_path, output_path, env.os_ok)
             IN  [ret |-> ~moved.raised, fs |-> moved.fs, argv |-> argv]
        ELSE [ret |-> FALSE, fs |-> f1, argv |-> argv]

\* Texconv._convert_exe
ConvertExe(self, input_path, output_path, dds_format, use_alpha_flag, use_sepalpha, mipmap_levels, f, env) ==
    LET argv    == ExeCmd(self, input_path, output_path, dds_format, use_alpha_flag,
                          use_sepalpha, mipmap_levels)
        outcome == ExeOutcome(self, env)
        f1      == ConverterRuns(f, input_path, Dirname(output_path), outcome)
    IN  IF outcome = "raise" THEN [ret |-> FALSE, fs |-> f, argv |-> argv]
        ELSE IF outcome = "nonzero"                           \* CalledProcessError
        THEN [ret |-> FALSE, fs |-> f1, argv |-> argv]
        ELSE LET moved == MoveCreated(f1, input_path, output_path, env.os_ok)
             IN  [ret |-> ~moved.raised, fs |-> moved.fs, argv |-> argv]

\* Texconv.convert
TexconvConvert(self, input_path, output_path, dds_format, use_alpha_flag, use_sepalpha, mipmap_levels, f, env) ==
    IF self.path = NoPath
    THEN [ret |-> FALSE, fs |-> f, argv |-> <<>>, invoked |-> "none"]
    ELSE IF self.is_dll /\ self.dll
    THEN [invoked |-> "dll"] @@
         ConvertDll(self, input_path, output_path, dds_format, use_alpha_flag,
                    use_sepalpha, mipmap_levels, f, env)
    ELSE [invoked |-> "exe"] @@
         ConvertExe(self, input_path, output_path, dds_format, use_alpha_flag,
                    use_sepalpha, mipmap_levels, f, env)

\* the pixel file image.save() writes
PngOf(image) == [kind |-> "png", of |-> image.pixels]

\* line 570: the name returned on the PNG fallback
FallbackName_Dds(save_path) == Basename(SplitextPlus(save_path, <<>>, "dds"))
FallbackName(save_path) == Basename(save_path)

\* save_image_as_dds.  The result record holds the return value (`result`,
\* NoName for None; `raised` when an exception leaves the function), the image
\* and the file system afterwards, and what was done with the converter.
SaveImageAsDds(image, save_path, dds_format, use_alpha_flag, use_sepalpha, mipmap_levels, f, env) ==
    LET temp_png      == SplitextPlus(save_path, <<"_temp">>, "png")
        dds_file_path == SplitextPlus(save_path, <<>>, "dds")
        image1 == [image EXCEPT !.filepath_raw = temp_png, !.file_format = "PNG"]
        f1     == IF env.save_temp = "ok" THEN WriteFile(f, temp_png, PngOf(image)) ELSE f
        conv   == TexconvInit(env.tool, env.dll_loads)
        called == conv.path # NoPath
        c      == IF called
                  THEN TexconvConvert(conv, temp_png, dds_file_path, dds_format,
                                      use_alpha_flag, use_sepalpha, mipmap_levels, f1, env)
                  ELSE [ret |-> FALSE, fs |-> f1, argv |-> <<>>, invoked |-> "none"]
        success == called /\ c.ret /\ Exists(c.fs, dds_file_path)
        f3     == IF Exists(c.fs, temp_png) /\ env.rm_temp_ok
                  THEN RemoveFile(c.fs, temp_png) ELSE c.fs
        restored == [image1 EXCEPT !.filepath_raw = image.filepath_raw,
                                   !.file_format = image.file_format]
        nothing == [ret |-> FALSE, argv |-> <<>>, invoked |-> "none"]
        did     == [ret |-> c.ret, argv |-> c.argv, invoked |-> c.invoked]
    IN  IF env.save_temp = "raise"
        THEN [raised |-> TRUE, result |-> NoName, image |-> image1, fs |-> f,
              called |-> FALSE, convert |-> nothing]
        ELSE IF ~Exists(f1, temp_png)
        THEN [raised |-> FALSE, result |-> NoName, image |-> image1, fs |-> f1,
              called |-> FALSE, convert |-> nothing]
        ELSE IF success /\ Exists(f3, dds_file_path)
        THEN [raised |-> FALSE, result |-> Basename(dds_file_path), image |-> image1,
              fs |-> f3, called |-> called, convert |-> did]
        ELSE IF env.save_final = "ok"
        THEN [raised |-> FALSE, result |-> FallbackName(save_path), image |-> restored,
              fs |-> WriteFile(f3, save_path, PngOf(image)),
              called |-> called, convert |-> did]
        ELSE [raised |-> TRUE, result |-> NoName, image |-> restored, fs |-> f3,
              called |-> called, convert |-> did]

ConvSavePath == [dir |-> ExportDir, stem |-> <<"A", "_", "BaseTexture">>, ext |-> "png"]
StaleDds == [kind |-> "dds", of |-> "stale"]
StalePng == [kind |-> "png", of |-> "stale"]

\* the calls of save_image_as_dds that are tried
ConvCalls ==
    { [save_path |-> ConvSavePath, dds_format |-> "BC1_UNORM",
       use_alpha_flag |-> TRUE, use_sepalpha |-> FALSE, mipmap_levels |-> 9],
      [save_path |-> ConvSavePath, dds_format |-> "BC3_UNORM",
       use_alpha_flag |-> FALSE, use_sepalpha |-> TRUE, mipmap_levels |-> 1] }

\* the export directory before the call: files of an earlier run may be there
ConvInitialFs ==
    { [p \in ps |-> IF p.ext = "dds" THEN StaleDds ELSE StalePng] :
      ps \in SUBSET {ConvSavePath, SplitextPlus(ConvSavePath, <<>>, "dds")} }

BlankImage(name) ==
    [name |-> name, filepath_raw |-> NoPath, file_format |-> "TARGA", pixels |-> "blank"]

NoConvOut ==
    [raised |-> FALSE, result |-> NoName, image |-> BlankImage(<<>>), fs |-> EmptyFs,
     called |-> FALSE, convert |-> [ret |-> FALSE, argv |-> <<>>, invoked |-> "none"]]

ConvIdleInit ==
    /\ conv_pc = "idle"
    /\ conv_call = CHOOSE c \in ConvCalls : c.dds_format = "BC1_UNORM"
    /\ conv_env = CHOOSE e \in Envs : e.tool = NoPath /\ e.dll_loads /\ e.outcome = "ok"
                     /\ e.os_ok /\ e.rm_temp_ok /\ e.save_temp = "ok" /\ e.save_final = "ok"
    /\ conv_fs = EmptyFs
    /\ conv_fs0 = EmptyFs
    /\ conv_image = BlankImage(<<>>)
    /\ conv_out = NoConvOut

ConvInit ==
    /\ conv_pc = "call"
    /\ conv_call \in ConvCalls
    /\ conv_env \in Envs
    /\ conv_fs \in ConvInitialFs
    /\ conv_fs0 = conv_fs
    /\ conv_image = [BlankImage(<<"A", "_", "BaseTexture">>) EXCEPT !.pixels = "baked"]
    /\ conv_out = NoConvOut

\* save_image_as_dds is called and returns (or raises)
CallSaveImageAsDds ==
    /\ conv_pc = "call"
    /\ LET out == SaveImageAsDds(conv_image, conv_call.save_path, conv_call.dds_format,
                                 conv_call.use_alpha_flag, conv_call.use_sepalpha,
                                 conv_call.mipmap_levels, conv_fs, conv_env)
       IN  /\ conv_out' = out
           /\ conv_fs' = out.fs
           /\ conv_image' = out.image
    /\ conv_pc' = IF conv_out'.raised THEN "raised" ELSE "returned"
    /\ UNCHANGED <<conv_call, conv_env, conv_fs0, valVars, pipeVars, fnVars>>

-----------------------------------------------------------------------------
(* bake_pipeline.py: the scene run_pipeline works on *)

\* Blender's numbered name suffixes
NumToks == <<".001", ".002", ".003", ".004", ".005", ".006", ".007", ".008", ".009">>

StripNum(name) ==
    IF name # <<>> /\ name[Len(name)] \in Range(NumToks)
    THEN SubSeq(name, 1, Len(name) - 1) ELSE name

\* the name a datablock gets when `name` is asked for and `taken` are in use
UniqueName(name, taken) ==
    IF name \notin taken THEN name
    ELSE LET b == StripNum(name)
             k == CHOOSE k \in 1..Len(NumToks) :
                    /\ b \o <<NumToks[k]>> \notin taken
                    /\ \A j \in 1..(k - 1) : b \o <<NumToks[j]>> \in taken
         IN  b \o <<NumToks[k]>>

SourceNames == <<"A", "B", "C", "D">>
\* an empty material slot
NoMaterial == <<>>
BsdfNode == <<"Principled BSDF">>
OutputNode == <<"Material Output">>
\* line 295: the name create_baked_material_shared gave the material of an
\* earlier atlas bake whose first object was "A"
EarlierAtlasMaterial == <<"A", "_Atlas_Baked">>

\* The kinds of source object tried.  `parts` lists the vertex count of each
\* loose part of the mesh, `uv_layers` the names of its UV layers and
\* `mats` the materials in its slots.  `matched` records, for a separated
\* component, the original_name of the metadata entry it was matched to.
\* the last kind carries the material an earlier atlas bake of a batch led by
\* "A" has left in bpy.data.materials.
SourceKinds ==
    { [parts |-> <<10>>,     uv_layers |-> <<"UVMap">>,               mats |-> << <<"M1">> >>],
      [parts |-> <<12>>,     uv_layers |-> <<"UVMap">>,               mats |-> <<>>],
      [parts |-> <<20>>,     uv_layers |-> <<>>,                      mats |-> << <<"M1">>, <<"M2">> >>],
      [parts |-> <<10, 10>>, uv_layers |-> <<"UVMap", "ALAMO_BAKE">>, mats |-> << <<"M2">> >>],
      [parts |-> <<30>>,     uv_layers |-> <<"UVMap">>,               mats |-> << NoMaterial >>],
      [parts |-> <<40>>,     uv_layers |-> <<"UVMap">>,               mats |-> << EarlierAtlasMaterial >>] }

SourceObject(i, kind) ==
    [name |-> <<SourceNames[i]>>, parts |-> kind.parts,
     uv_layers |-> kind.uv_layers, mats |-> kind.mats, matched |-> <<>>]

\* len(obj.data.vertices)
VertexCount(obj) == SumSeq(obj.parts)

NewMaterial(nodes) ==
    [use_nodes |-> TRUE, nodes |-> nodes, shader |-> "",
     BaseTexture |-> NoName, NormalTexture |-> NoName]

SourceMaterials ==
    [m \in {<<"M1">>, <<"M2">>, EarlierAtlasMaterial} |->
       IF m = EarlierAtlasMaterial
       THEN [NewMaterial({BsdfNode, OutputNode}) EXCEPT
               !.shader = "MeshGloss.fx",
               !.BaseTexture = [stem |-> <<"A", "_Atlas", "_", "BaseTexture">>, ext |-> "dds"],
               !.NormalTexture = [stem |-> <<"A", "_Atlas", "_", "NormalTexture">>, ext |-> "dds"]]
       ELSE NewMaterial({BsdfNode, OutputNode})]

BakeTypes_NormalFirst == <<"NORMAL", "DIFFUSE">>
BakeTypes == <<"DIFFUSE", "NORMAL">>
\* bake_map of setup_baking_material, and param_name of run_pipeline
ParamName(bake_type) == IF bake_type = "NORMAL" THEN "NormalTexture" ELSE "BaseTexture"
\* f"BAKE_{bake_type}"
BakeNode(bake_type) == <<"BAKE_", bake_type>>
\* n.name.startswith("BAKE_")
IsBakeNode(node) == node # <<>> /\ node[1] = "BAKE_"

\* the keyword arguments run_pipeline is called with
PipeArgs ==
    { [dds_format_diffuse |-> "BC1_UNORM", dds_format_normal |-> "BC3_UNORM",
       alpha_mode |-> "CONSTANT", use_bc1_alpha_flag |-> TRUE, mipmap_levels |-> 9],
      [dds_format_diffuse |-> "BC3_UNORM", dds_format_normal |-> "BC3_UNORM",
       alpha_mode |-> "PRESERVE", use_bc1_alpha_flag |-> TRUE, mipmap_levels |-> 0] }

NoMetadata == [none |-> TRUE, entries |-> <<>>]
NoReturn == [kind |-> "running", objs |-> <<>>]

PipeInit ==
    /\ pc = "start"
    /\ args \in PipeArgs
    /\ \E n \in 0..MaxObjs :
         /\ objects = [i \in 1..n |-> i]
         /\ \E kinds \in [1..n -> SourceKinds] :
              scene_objs = [i \in 1..n |-> SourceObject(i, kinds[i])]
         /\ selected = 1..n
         /\ active = IF n = 0 THEN 0 ELSE 1
    /\ materials = SourceMaterials
    /\ images = [t \in Range(BakeTypes) |-> BlankImage(<<>>)]
    /\ engine \in {"BLENDER_EEVEE", "CYCLES"}
    /\ fs = EmptyFs
    /\ joined_obj = 0
    /\ metadata = NoMetadata
    /\ chan = 1
    /\ texture_results = [p \in {} |-> NoName]
    /\ separated_objs = <<>>
    /\ ret = NoReturn
    /\ log = <<>>
    /\ entry = [active |-> active, selected |-> selected, engine |-> engine]
    /\ touched = {}

PipeIdleInit ==
    /\ pc = "idle"
    /\ args = CHOOSE a \in PipeArgs : a.mipmap_levels = 9
    /\ objects = <<>>
    /\ scene_objs = <<>>
    /\ selected = {}
    /\ active = 0
    /\ materials = SourceMaterials
    /\ images = [t \in Range(BakeTypes) |-> BlankImage(<<>>)]
    /\ engine = "BLENDER_EEVEE"
    /\ fs = EmptyFs
    /\ joined_obj = 0
    /\ metadata = NoMetadata
    /\ chan = 1
    /\ texture_results = [p \in {} |-> NoName]
    /\ separated_objs = <<>>
    /\ ret = NoReturn
    /\ log = <<>>
    /\ entry = [active |-> 0, selected |-> {}, engine |-> "BLENDER_EEVEE"]
    /\ touched = {}

-----------------------------------------------------------------------------
(* bake_pipeline.py: the Mesh Atlas Preparer *)

ObjNames(objs) == {objs[i].name : i \in 1..Len(objs)}

\* obj.copy() with obj.data.copy(), linked to the collection
CopyObject(objs, id) ==
    [objs[id] EXCEPT !.name = UniqueName(objs[id].name, ObjNames(objs))]

\* lines 21-22 and 78-79: the UV layer is added when it is not there
EnsureUvLayer(obj, uv_name) ==
    IF uv_name \in Range(obj.uv_layers) THEN obj
    ELSE [obj EXCEPT !.uv_layers = Append(@, uv_name)]

\* the default uv_name of prepare_objects_for_bake, which run_pipeline does not override
PreparerUvName == "ALAMO_BAKE_ATLAS"

\* line 665: the uv_name run_pipeline hands to separate_baked_meshes
SeparateUvName(is_multi) == IF is_multi THEN "ALAMO_BAKE_ATLAS" ELSE "ALAMO_BAKE"

\* prepare_object_for_bake: the scene afterwards and the object returned
PrepareObjectForBake_InPlace(objs, id, uv_name) ==
    [objs |-> [objs EXCEPT ![id] = EnsureUvLayer(@, uv_name)], obj |-> id,
     selected |-> {id}, active |-> id]
PrepareObjectForBake(objs, id, uv_name) ==
    LET new_obj == EnsureUvLayer(CopyObject(objs, id), uv_name)
    IN  [objs |-> Append(objs, new_obj), obj |-> Len(objs) + 1,
         selected |-> {Len(objs) + 1}, active |-> Len(objs) + 1]

\* lines 55-68: one duplicate per source, appended to the scene in order
RECURSIVE AddDuplicates(_, _, _)
AddDuplicates(objs, srcs, i) ==
    IF i > Len(srcs) THEN objs
    ELSE AddDuplicates(Append(objs, CopyObject(objs, srcs[i])), srcs, i + 1)

RECURSIVE ConcatAll(_)
ConcatAll(ss) == IF ss = <<>> THEN <<>> ELSE Head(ss) \o ConcatAll(Tail(ss))

\* bpy.ops.object.join(): the active duplicate takes the geometry of all of
\* them, the union of their UV layers and of their material slots
JoinObjects(objs, ids) ==
    [name      |-> objs[ids[1]].name,
     parts     |-> ConcatAll([k \in 1..Len(ids) |-> objs[ids[k]].parts]),
     uv_layers |-> Dedup(ConcatAll([k \in 1..Len(ids) |-> objs[ids[k]].uv_layers])),
     mats      |-> Dedup(ConcatAll([k \in 1..Len(ids) |-> objs[ids[k]].mats])),
     matched   |-> <<>>]

\* prepare_objects_for_bake: the scene afterwards, the joined object and the metadata
PrepareObjectsForBake(objs, srcs, uv_name) ==
    IF Len(srcs) = 1
    THEN PrepareObjectForBake(objs, srcs[1], uv_name) @@ [metadata |-> NoMetadata]
    ELSE LET n      == Len(objs)
             withd  == AddDuplicates(objs, srcs, 1)
             dups   == [k \in 1..Len(srcs) |-> n + k]
             meta   == [k \in 1..Len(srcs) |->
                          [original_name |-> objs[srcs[k]].name,
                           duplicate     |-> dups[k],
                           vertex_count  |-> VertexCount(withd[dups[k]])]]
             joined == EnsureUvLayer(JoinObjects(withd, dups), uv_name)
         IN  [objs |-> Append(objs, joined), obj |-> n + 1,
              selected |-> {n + 1}, active |-> n + 1,
              metadata |-> [none |-> FALSE, entries |-> meta]]

-----------------------------------------------------------------------------
(* bake_pipeline.py: run_pipeline, step by step *)

Raised == [kind |-> "raised", objs |-> <<>>]

\* lines 600-605: an empty request returns (None, None)
Enter ==
    /\ pc = "start"
    /\ IF objects = <<>>
       THEN /\ pc' = "returned_none"
            /\ ret' = [kind |-> "none", objs |-> <<>>]
       ELSE /\ pc' = "prepare"
            /\ ret' = ret
    /\ UNCHANGED <<args, objects, scene_objs, materials, images, active, selected,
                   engine, fs, joined_obj, metadata, chan, texture_results,
                   separated_objs, log, entry, touched, valVars, convVars, fnVars>>

\* lines 607-609: step 1, prepare
Prepare ==
    /\ pc = "prepare"
    /\ LET p == PrepareObjectsForBake(scene_objs, objects, PreparerUvName)
       IN  /\ scene_objs' = p.objs
           /\ joined_obj' = p.obj
           /\ metadata' = p.metadata
           /\ selected' = p.selected
           /\ active' = p.active
    /\ log' = Append(log, <<"prepare">>)
    /\ pc' = "setup"
    /\ UNCHANGED <<args, objects, materials, images, engine, fs, chan, texture_results,
                   separated_objs, ret, entry, touched, valVars, convVars, fnVars>>

\* lines 176-182: the two bake-target nodes are (re)created in the material
InsertBakeNodes(mat) ==
    [mat EXCEPT !.use_nodes = TRUE,
                !.nodes = @ \cup {BakeNode(t) : t \in Range(BakeTypes)}]

\* the index of the first empty slot of mats, 0 when there is none
FirstEmptySlot(mats) ==
    IF \E i \in 1..Len(mats) : mats[i] = NoMaterial
    THEN CHOOSE i \in 1..Len(mats) :
           mats[i] = NoMaterial /\ \A j \in 1..(i - 1) : mats[j] # NoMaterial
    ELSE 0

\* setup_baking_material: the object, the materials and the images afterwards;
\* an empty slot raises (None has no use_nodes) after the slots before it were set up
SetupBakingMaterial(obj, mats_store) ==
    LET temp   == UniqueName(<<"BakeTemp">>, DOMAIN mats_store)
        store1 == IF obj.mats = <<>>
                  THEN [m \in DOMAIN mats_store \cup {temp} |->
                          IF m = temp THEN [NewMaterial({}) EXCEPT !.use_nodes = FALSE]
                          ELSE mats_store[m]]
                  ELSE mats_store
        obj1   == IF obj.mats = <<>> THEN [obj EXCEPT !.mats = <<temp>>] ELSE obj
        k      == FirstEmptySlot(obj1.mats)
        done   == IF k = 0 THEN Range(obj1.mats) ELSE {obj1.mats[i] : i \in 1..(k - 1)}
    IN  [raised    |-> k # 0,
         obj       |-> obj1,
         materials |-> [m \in DOMAIN store1 |->
                          IF m \in done THEN InsertBakeNodes(store1[m]) ELSE store1[m]],
         touched   |-> done,
         images    |-> [t \in Range(BakeTypes) |->
                          BlankImage(obj.name \o <<"_", ParamName(t)>>)]]

\* lines 611-612: step 2, set up the bake targets
Setup ==
    /\ pc = "setup"
    /\ LET r == SetupBakingMaterial(scene_objs[joined_obj], materials)
       IN  /\ scene_objs' = [scene_objs EXCEPT ![joined_obj] = r.obj]
           /\ materials' = r.materials
           /\ touched' = r.touched
           /\ images' = r.images
           /\ pc' = IF r.raised THEN "raised" ELSE "bake"
           /\ ret' = IF r.raised THEN Raised ELSE ret
    /\ log' = Append(log, <<"setup">>)
    /\ UNCHANGED <<args, objects, active, selected, engine, fs, joined_obj, metadata,
                   chan, texture_results, separated_objs, entry, valVars, convVars, fnVars>>

\* lines 616-619 and 627-628: where the channel's PNG is saved
SavePath(objs, srcs, bake_type) ==
    LET base_name == objs[srcs[1]].name \o (IF Len(srcs) > 1 THEN <<"_Atlas">> ELSE <<>>)
    IN  JoinPath(ExportDir, [stem |-> base_name \o <<"_", ParamName(bake_type)>>,
                             ext |-> "png"])

\* lines 201-223: the engine when bake_pass is left: original_engine is read,
\* CYCLES is set for the bake, and original_engine is written back on both paths
BakePassEngine_KeptOnFailure(original_engine, bake_ok) ==
    IF bake_ok THEN original_engine ELSE "CYCLES"
BakePassEngine(original_engine, bake_ok) ==
    IF bake_ok THEN original_engine ELSE original_engine

\* bake_pass: what it returns and leaves behind, given whether the bake
\* operator succeeds and whether image.save() does
BakePass(obj, bake_type, image, save_path, cur_engine, f, bake_ok, save_ok) ==
    LET saving == [image EXCEPT !.filepath_raw = save_path, !.file_format = "PNG",
                                !.pixels = "baked"]
    IN  [active  |-> obj,
         engine  |-> BakePassEngine(cur_engine, bake_ok),
         none    |-> ~bake_ok,
         raised  |-> bake_ok /\ ~save_ok,
         image   |-> IF bake_ok THEN saving ELSE image,
         fs      |-> IF bake_ok /\ save_ok THEN WriteFile(f, save_path, PngOf(saving)) ELSE f]

CurType == BakeTypes[chan]
OkStr(b) == IF b THEN "ok" ELSE "failed"

\* line 630: bake_pass is called and its return value is dropped
Bake ==
    /\ pc = "bake"
    /\ \E bake_ok \in BOOLEAN, save_ok \in BOOLEAN :
         LET r == BakePass(joined_obj, CurType, images[CurType],
                           SavePath(scene_objs, objects, CurType), engine, fs,
                           bake_ok, save_ok)
         IN  /\ active' = r.active
             /\ engine' = r.engine
             /\ images' = [images EXCEPT ![CurType] = r.image]
             /\ fs' = r.fs
             /\ pc' = IF r.raised THEN "raised" ELSE "alpha"
             /\ ret' = IF r.raised THEN Raised ELSE ret
             /\ log' = Append(log, <<"bake", CurType, OkStr(bake_ok)>>)
    /\ UNCHANGED <<args, objects, scene_objs, materials, selected, joined_obj, metadata,
                   chan, texture_results, separated_objs, entry, touched,
                   valVars, convVars, fnVars>>

\* process_alpha_channel, on the image as a whole: CONSTANT and
\* EXTRACT_SATURATION rewrite the pixels, PRESERVE does not
AlphaTag(pixels) ==
    IF pixels = "blank" THEN "blank+alpha"
    ELSE IF pixels = "baked" THEN "baked+alpha" ELSE pixels
ProcessAlphaChannel(image, alpha_mode) ==
    IF alpha_mode \in {"EXTRACT_SATURATION", "CONSTANT"}
    THEN [image EXCEPT !.pixels = AlphaTag(@)]
    ELSE image

\* lines 632-640: the diffuse image is alpha-processed and saved again
Alpha ==
    /\ pc = "alpha"
    /\ IF CurType = "DIFFUSE"
       THEN \E save_ok \in BOOLEAN :
              LET save_path == SavePath(scene_objs, objects, CurType)
                  image == [ProcessAlphaChannel(images[CurType], args.alpha_mode)
                              EXCEPT !.filepath_raw = save_path, !.file_format = "PNG"]
              IN  /\ images' = [images EXCEPT ![CurType] = image]
                  /\ fs' = IF save_ok THEN WriteFile(fs, save_path, PngOf(image)) ELSE fs
                  /\ pc' = IF save_ok THEN "convert" ELSE "raised"
                  /\ ret' = IF save_ok THEN ret ELSE Raised
                  /\ log' = log \o << <<"alpha", CurType>>, <<"save", CurType, OkStr(save_ok)>> >>
       ELSE /\ pc' = "convert"
            /\ UNCHANGED <<images, fs, ret, log>>
    /\ UNCHANGED <<args, objects, scene_objs, materials, active, selected, engine,
                   joined_obj, metadata, chan, texture_results, separated_objs,
                   entry, touched, valVars, convVars, fnVars>>

\* lines 633-649: the converter flags of a channel
UseAlphaFlag_AnyChannel(bake_type, dds_fmt, use_bc1_alpha_flag) ==
    dds_fmt = "BC1_UNORM" /\ use_bc1_alpha_flag
UseAlphaFlag(bake_type, dds_fmt, use_bc1_alpha_flag) ==
    bake_type = "DIFFUSE" /\ dds_fmt = "BC1_UNORM" /\ use_bc1_alpha_flag
UseSepalpha_AnyChannel(bake_type, dds_fmt) == dds_fmt = "BC3_UNORM"
UseSepalpha(bake_type, dds_fmt) ==
    bake_type = "DIFFUSE" /\ dds_fmt # "BC1_UNORM" /\ dds_fmt = "BC3_UNORM"
\* line 625
DdsFmt(bake_type, a) ==
    IF bake_type = "NORMAL" THEN a.dds_format_normal ELSE a.dds_format_diffuse
\* lines 653-655
ActualMipmapLevels_ZeroKept(mipmap_levels) ==
    IF mipmap_levels > 0 THEN mipmap_levels ELSE 0
ActualMipmapLevels(mipmap_levels) ==
    IF mipmap_levels = 0 THEN 1
    ELSE IF mipmap_levels > 0 THEN mipmap_levels ELSE 0

\* what may happen around the converter during a pipeline run
PipeEnvs ==
    {e \in Envs : /\ e.tool \in {NoPath, TexconvDll}
                  /\ e.dll_loads /\ e.os_ok /\ e.rm_temp_ok
                  /\ e.outcome \in {"ok", "nonzero"}
                  /\ e.save_temp \in {"ok", "nofile"}}

\* lines 657-662: save_image_as_dds, and its result recorded in texture_results
Convert ==
    /\ pc = "convert"
    /\ \E env \in PipeEnvs :
         LET dds_fmt == DdsFmt(CurType, args)
             out == SaveImageAsDds(images[CurType], SavePath(scene_objs, objects, CurType),
                                   dds_fmt,
                                   UseAlphaFlag(CurType, dds_fmt, args.use_bc1_alpha_flag),
                                   UseSepalpha(CurType, dds_fmt),
                                   ActualMipmapLevels(args.mipmap_levels), fs, env)
         IN  /\ images' = [images EXCEPT ![CurType] = out.image]
             /\ fs' = out.fs
             /\ log' = Append(log, <<"convert", CurType, out.convert.invoked>>)
             /\ IF out.raised
                THEN /\ pc' = "raised"
                     /\ ret' = Raised
                     /\ UNCHANGED <<texture_results, chan>>
                ELSE /\ texture_results' =
                          [p \in DOMAIN texture_results \cup {ParamName(CurType)} |->
                             IF p = ParamName(CurType) THEN out.result
                             ELSE texture_results[p]]
                     /\ pc' = IF chan < Len(BakeTypes) THEN "bake" ELSE "separate"
                     /\ chan' = IF chan < Len(BakeTypes) THEN chan + 1 ELSE chan
                     /\ ret' = ret
    /\ UNCHANGED <<args, objects, scene_objs, materials, active, selected, engine,
                   joined_obj, metadata, separated_objs, entry, touched,
                   valVars, convVars, fnVars>>

-----------------------------------------------------------------------------
(* bake_pipeline.py: separation, shared material, cleanup *)

\* lines 111-113 and 140-142: every UV layer but uv_name is removed
KeepOnlyUv(obj, uv_name) ==
    [obj EXCEPT !.uv_layers = Without(@, Range(@) \ {uv_name})]

\* bpy.ops.mesh.separate(type='LOOSE'): the object keeps its first loose part,
\* each further part becomes a new object with the same layers and slots
RECURSIVE SeparateLoose(_, _, _, _)
SeparateLoose(objs, id, parts, j) ==
    IF j > Len(parts) THEN objs
    ELSE SeparateLoose(
           Append(objs, [objs[id] EXCEPT !.name = UniqueName(objs[id].name, ObjNames(objs)),
                                        !.parts = <<parts[j]>>]),
           id, parts, j + 1)

\* lines 133-136: the first metadata entry within the tolerance, 0 when none is
MatchEntry(entries, vertex_count) ==
    IF \E i \in 1..Len(entries) : Abs(entries[i].vertex_count - vertex_count) < Tolerance
    THEN CHOOSE i \in 1..Len(entries) :
           /\ Abs(entries[i].vertex_count - vertex_count) < Tolerance
           /\ \A j \in 1..(i - 1) :
                ~(Abs(entries[j].vertex_count - vertex_count) < Tolerance)
    ELSE 0

\* obj.name = name: the name is made unique among the other objects
RenameObject(objs, id, name) ==
    [objs EXCEPT ![id].name =
       UniqueName(name, {objs[i].name : i \in (1..Len(objs)) \ {id}})]

\* lines 131-142: the loop over the separated objects
RECURSIVE MatchLoop(_, _, _, _, _)
MatchLoop(objs, ids, i, entries, uv_name) ==
    IF i > Len(ids) THEN objs
    ELSE LET id == ids[i]
             m  == MatchEntry(entries, VertexCount(objs[id]))
             renamed == IF m = 0 THEN objs
                        ELSE [RenameObject(objs, id, entries[m].original_name \o <<"_Baked">>)
                                EXCEPT ![id].matched = entries[m].original_name]
         IN  MatchLoop([renamed EXCEPT ![id] = KeepOnlyUv(@, uv_name)],
                       ids, i + 1, entries, uv_name)

\* separate_baked_meshes: the scene afterwards and the list returned
SeparateBakedMeshes(objs, joined, meta, uv_name, sel, act) ==
    IF meta.none
    THEN [objs |-> [objs EXCEPT ![joined] = KeepOnlyUv(@, uv_name)],
          separated |-> <<joined>>, selected |-> sel, active |-> act]
    ELSE LET parts == objs[joined].parts
             split == SeparateLoose([objs EXCEPT ![joined].parts = <<parts[1]>>],
                                    joined, parts, 2)
             ids   == <<joined>> \o [k \in 1..(Len(split) - Len(objs)) |-> Len(objs) + k]
         IN  [objs |-> MatchLoop(split, ids, 1, meta.entries, uv_name),
              separated |-> ids, selected |-> Range(ids), active |-> joined]

\* lines 664-665: step 4, separate
Separate ==
    /\ pc = "separate"
    /\ LET r == SeparateBakedMeshes(scene_objs, joined_obj, metadata,
                                    SeparateUvName(Len(objects) > 1), selected, active)
       IN  /\ scene_objs' = r.objs
           /\ separated_objs' = r.separated
           /\ selected' = r.selected
           /\ active' = r.active
    /\ log' = Append(log, <<"separate">>)
    /\ pc' = "material"
    /\ UNCHANGED <<args, objects, materials, images, engine, fs, joined_obj, metadata,
                   chan, texture_results, ret, entry, touched, valVars, convVars, fnVars>>

\* lines 293-297: the name of the shared material
SharedMaterialName(objs, ids) ==
    Without(objs[ids[1]].name, {"_Baked"})
      \o (IF Len(ids) > 1 THEN <<"_Atlas_Baked">> ELSE <<"_Baked">>)

\* line 321: the Alamo texture parameter is the file name with .dds
TextureParam(tex_path) == [stem |-> tex_path.stem, ext |-> "dds"]

\* create_baked_material_shared; os.path.splitext raises on a None file name.
\* (The viewport preview nodes of lines 323-349 are left out.)
CreateBakedMaterialShared(objs, ids, results, mats_store) ==
    LET mat_name == SharedMaterialName(objs, ids)
        mat0 == [(IF mat_name \in DOMAIN mats_store THEN mats_store[mat_name]
                  ELSE NewMaterial({}))
                   EXCEPT !.use_nodes = TRUE, !.nodes = {OutputNode, BsdfNode},
                          !.shader = "MeshGloss.fx"]
        base_ok == "BaseTexture" \in DOMAIN results /\ results["BaseTexture"] # NoName
        norm_ok == "NormalTexture" \in DOMAIN results /\ results["NormalTexture"] # NoName
        mat1 == IF base_ok
                THEN [mat0 EXCEPT !.BaseTexture = TextureParam(results["BaseTexture"])]
                ELSE mat0
        mat2 == IF base_ok /\ norm_ok
                THEN [mat1 EXCEPT !.NormalTexture = TextureParam(results["NormalTexture"])]
                ELSE mat1
        raised == ~(base_ok /\ norm_ok)
    IN  [raised    |-> raised,
         materials |-> [m \in DOMAIN mats_store \cup {mat_name} |->
                          IF m = mat_name THEN mat2 ELSE mats_store[m]],
         objs      |-> IF raised THEN objs
                       ELSE [i \in 1..Len(objs) |->
                               IF i \in Range(ids) THEN [objs[i] EXCEPT !.mats = <<mat_name>>]
                               ELSE objs[i]]]

\* lines 667-668: step 5, the shared material
CreateMaterial ==
    /\ pc = "material"
    /\ LET r == CreateBakedMaterialShared(scene_objs, separated_objs, texture_results,
                                          materials)
       IN  /\ materials' = r.materials
           /\ scene_objs' = r.objs
           /\ pc' = IF r.raised THEN "raised" ELSE "cleanup"
           /\ ret' = IF r.raised THEN Raised ELSE ret
    /\ log' = Append(log, <<"material">>)
    /\ UNCHANGED <<args, objects, images, active, selected, engine, fs, joined_obj,
                   metadata, chan, texture_results, separated_objs, entry, touched,
                   valVars, convVars, fnVars>>

\* cleanup_bake_nodes over a list of objects: the materials in their slots
\* lose every node whose name starts with BAKE_
CleanupBakeNodes(objs, ids, mats_store) ==
    LET reached == UNION {Range(objs[ids[i]].mats) : i \in 1..Len(ids)} \ {NoMaterial}
    IN  [m \in DOMAIN mats_store |->
           IF m \in reached /\ mats_store[m].use_nodes
           THEN [mats_store[m] EXCEPT !.nodes = {n \in @ : ~IsBakeNode(n)}]
           ELSE mats_store[m]]

\* lines 670-676: step 6, cleanup over the sources and the separated objects, and return
Cleanup ==
    /\ pc = "cleanup"
    /\ materials' = CleanupBakeNodes(scene_objs, separated_objs,
                                     CleanupBakeNodes(scene_objs, objects, materials))
    /\ ret' = [kind |-> "returned", objs |-> separated_objs]
    /\ log' = Append(log, <<"cleanup">>)
    /\ pc' = "done"
    /\ UNCHANGED <<args, objects, scene_objs, images, active, selected, engine, fs,
                   joined_obj, metadata, chan, texture_results, separated_objs,
                   entry, touched, valVars, convVars, fnVars>>

-----------------------------------------------------------------------------
(* validation.py: checkFaceNumber *)

\* line 105: the largest loop count that is not an error (max ushort)
MaxLoops == 65535
\* line 107: the largest loop count that gets no warning
NearLoops == 60000

\* the loop counts tried: empty and tiny meshes, and a window around each limit
LoopCounts ==
    {0, 1} \cup ((NearLoops - 30)..(NearLoops + 30)) \cup ((MaxLoops - 30)..(MaxLoops + 30))

FaceObjects == { [name |-> <<"Mesh">>, loops |-> n] : n \in LoopCounts }

ExceedsFaceLimit(object) ==
    [severity |-> "ERROR",
     message  |-> <<"ALAMO - ">> \o object.name \o <<" exceeds maximum face limit 65535">>,
     loops    |-> object.loops]
CloseToFaceLimit(object) ==
    [severity |-> "WARNING",
     message  |-> <<"ALAMO - ">> \o object.name \o <<" close to maximum face limit 65535">>,
     loops    |-> object.loops]

\* validation.py:105  len(object.data.loops) > 65535
OverLimit_Inclusive(loops) == loops >= MaxLoops
OverLimit(loops) == loops > MaxLoops
\* validation.py:107  len(object.data.loops) > 60000
NearLimit(loops) == loops > NearLoops

checkFaceNumber(object) ==
    IF OverLimit(object.loops) THEN <<ExceedsFaceLimit(object)>>
    ELSE IF NearLimit(object.loops) THEN <<CloseToFaceLimit(object)>>
    ELSE <<>>

FaceNumberInit ==
    /\ fn_pc = "call"
    /\ fn_args \in FaceObjects
    /\ fn_ret = <<>>

\* the rule is applied to the object
CheckFaceNumber ==
    /\ fn_pc = "call"
    /\ fn_ret' = checkFaceNumber(fn_args)
    /\ fn_pc' = "returned"
    /\ UNCHANGED <<fn_args, valVars, convVars, pipeVars>>

-----------------------------------------------------------------------------
(* bake_pipeline.py: process_alpha_channel on the pixel buffer *)

\* most pixels of an image handed to process_alpha_channel
MaxPixels == 2

\* Channel values are exact fractions of One: the value k stands for k / One,
\* so One is 1.0 and 1000 * n is n / 255.  The weights 0.299, 0.587 and 0.114
\* are thousandths, and a gray of such values is again a whole number.
One == 255 * 1000
Byte(n) == n * 1000

\* RGBA samples: black, two colours of saturation exactly 0.1, one just above
\* and one just below the threshold, and a fully saturated one
PixelSamples ==
    { <<Byte(0), Byte(0), Byte(0), Byte(255)>>,
      <<Byte(250), Byte(225), Byte(225), Byte(0)>>,
      <<Byte(9), Byte(10), Byte(10), Byte(128)>>,
      <<Byte(250), Byte(224), Byte(250), Byte(255)>>,
      <<Byte(240), Byte(226), Byte(250), Byte(64)>>,
      <<Byte(0), Byte(255), Byte(128), Byte(1)>> }

\* image.size of the images tried: (width, height)
ImageSizes == { sz \in (1..MaxPixels) \X (1..MaxPixels) : sz[1] * sz[2] <= MaxPixels }

\* image.pixels is flat: four values per pixel, rows of `width` pixels
AlphaImages ==
    UNION { { [size |-> sz,
               pixels |-> [i \in 1..(4 * sz[1] * sz[2]) |-> px[((i - 1) \div 4) + 1][((i - 1) % 4) + 1]]] :
              px \in [1..(sz[1] * sz[2]) -> PixelSamples] } :
            sz \in ImageSizes }

\* lines 244 and 281: np.array(image.pixels[:]).reshape((size[1], size[0], 4))
Reshape(image) ==
    [y \in 0..(image.size[2] - 1) |->
       [x \in 0..(image.size[1] - 1) |->
          [c \in 0..3 |-> image.pixels[(y * image.size[1] + x) * 4 + c + 1]]]]

\* lines 275 and 283: pixels.flatten()
Flatten(pixels, size) ==
    [i \in 1..(4 * size[1] * size[2]) |->
       pixels[(i - 1) \div (4 * size[1])][((i - 1) \div 4) % size[1]][(i - 1) % 4]]

Max3(r, g, b) == IF r >= g /\ r >= b THEN r ELSE IF g >= b THEN g ELSE b
Min3(r, g, b) == IF r <= g /\ r <= b THEN r ELSE IF g <= b THEN g ELSE b

\* lines 252-258: the saturation, as the fraction num / den
Saturation(r, g, b) ==
    LET max_c == Max3(r, g, b)
        min_c == Min3(r, g, b)
    IN  IF max_c > 0 THEN [num |-> max_c - min_c, den |-> max_c]
        ELSE [num |-> 0, den |-> 1]

\* line 263: saturation > 0.1
AboveThreshold_Inclusive(saturation) == saturation.num * 10 >= saturation.den
AboveThreshold(saturation) == saturation.num * 10 > saturation.den

\* line 269: gray = 0.299 * r + 0.587 * g + 0.114 * b
Gray_Average(r, g, b) == (r + g + b) \div 3
Gray(r, g, b) == (299 * r + 587 * g + 114 * b) \div 1000

\* lines 249-272: one pass of the loop body; r, g, b are read before any
\* channel of the pixel is written
ExtractSaturationPixel(p) ==
    LET r == p[0]
        g == p[1]
        b == p[2]
        gray == Gray(r, g, b)
    IN  [c \in 0..3 |->
           IF c = 3 THEN (IF AboveThreshold(Saturation(r, g, b)) THEN One ELSE 0)
           ELSE gray]

\* line 280: alpha_value / 255.0
AlphaNormalized_Opaque(alpha_value) == One
AlphaNormalized(alpha_value) == (alpha_value * One) \div 255

\* process_alpha_channel: the image with the pixels it holds afterwards
ProcessAlphaPixels(image, alpha_mode, alpha_value) ==
    LET pixels == Reshape(image)
    IN  IF alpha_mode = "EXTRACT_SATURATION"
        THEN [image EXCEPT !.pixels =
                Flatten([y \in DOMAIN pixels |->
                           [x \in DOMAIN pixels[y] |-> ExtractSaturationPixel(pixels[y][x])]],
                        image.size)]
        ELSE IF alpha_mode = "CONSTANT"
        THEN [image EXCEPT !.pixels =
                Flatten([y \in DOMAIN pixels |->
                           [x \in DOMAIN pixels[y] |->
                              [pixels[y][x] EXCEPT ![3] = AlphaNormalized(alpha_value)]]],
                        image.size)]
        ELSE image

\* the calls tried: every alpha_value of CONSTANT, and the two other modes
\* with the default alpha_value
AlphaCalls ==
    { [alpha_mode |-> "CONSTANT", alpha_value |-> v] : v \in 0..255 }
    \cup { [alpha_mode |-> m, alpha_value |-> 255] : m \in {"EXTRACT_SATURATION", "PRESERVE"} }

AlphaInit ==
    /\ fn_pc = "call"
    /\ \E image \in AlphaImages, c \in AlphaCalls :
         fn_args = [image |-> image, alpha_mode |-> c.alpha_mode, alpha_value |-> c.alpha_value]
    /\ fn_ret = <<>>

\* process_alpha_channel is called; fn_ret is the image afterwards
CallProcessAlphaChannel ==
    /\ fn_pc = "call"
    /\ fn_ret' = ProcessAlphaPixels(fn_args.image, fn_args.alpha_mode, fn_args.alpha_value)
    /\ fn_pc' = "returned"
    /\ UNCHANGED <<fn_args, valVars, convVars, pipeVars>>

-----------------------------------------------------------------------------
(* bake_pipeline.py: one channel of run_pipeline handed to the converter *)

\* the formats offered for dds_format_diffuse and dds_format_normal
DdsFormats == {"BC1_UNORM", "BC3_UNORM", "BC7_UNORM", "R8G8B8A8_UNORM"}
\* the mipmap_levels tried: a negative value, 0, 1, and two larger ones
MipmapLevels == {-1, 0, 1, 2, 9}

ChannelArgs ==
    [dds_format_diffuse : DdsFormats, dds_format_normal : DdsFormats,
     alpha_mode : {"CONSTANT"}, use_bc1_alpha_flag : BOOLEAN,
     mipmap_levels : MipmapLevels]

\* a host on which the converter is found and runs
ChannelEnvs ==
    {e \in Envs : /\ e.tool # NoPath /\ e.outcome = "ok" /\ e.os_ok /\ e.rm_temp_ok
                  /\ e.save_temp = "ok" /\ e.save_final = "ok"}

\* lines 625-628 and 633-661: format, flags and mip levels of the channel,
\* and the call of save_image_as_dds with them
ChannelToDds(bake_type, a, image, save_path, f, env) ==
    LET dds_fmt == DdsFmt(bake_type, a)
    IN  SaveImageAsDds(image, save_path, dds_fmt,
                       UseAlphaFlag(bake_type, dds_fmt, a.use_bc1_alpha_flag),
                       UseSepalpha(bake_type, dds_fmt),
                       ActualMipmapLevels(a.mipmap_levels), f, env)

ChannelSavePath(bake_type) ==
    JoinPath(ExportDir, [stem |-> <<"A", "_", ParamName(bake_type)>>, ext |-> "png"])

ChannelInit ==
    /\ fn_pc = "call"
    /\ \E bake_type \in Range(BakeTypes), a \in ChannelArgs, env \in ChannelEnvs :
         fn_args = [bake_type |-> bake_type, a |-> a, env |-> env]
    /\ fn_ret = <<>>

\* the channel's image is converted; fn_ret is what save_image_as_dds did
ConvertChannel ==
    /\ fn_pc = "call"
    /\ fn_ret' = ChannelToDds(fn_args.bake_type, fn_args.a,
                              [BlankImage(<<"A", "_", ParamName(fn_args.bake_type)>>)
                                 EXCEPT !.pixels = "baked"],
                              ChannelSavePath(fn_args.bake_type), EmptyFs, fn_args.env)
    /\ fn_pc' = IF fn_ret'.raised THEN "raised" ELSE "returned"
    /\ UNCHANGED <<fn_args, valVars, convVars, pipeVars>>

-----------------------------------------------------------------------------
(* bake_pipeline.py: one call of Texconv.convert *)

ArgvInputs ==
    { [dir |-> ExportDir, stem |-> <<"A", "_", "BaseTexture", "_temp">>, ext |-> "png"],
      [dir |-> "work", stem |-> <<"B">>, ext |-> "png"] }
ArgvOutputs ==
    { [dir |-> ExportDir, stem |-> <<"A", "_", "BaseTexture">>, ext |-> "dds"],
      [dir |-> "out", stem |-> <<"B">>, ext |-> "dds"] }

\* the calls of convert that are tried: every combination of its arguments
ArgvCalls ==
    [input_path : ArgvInputs, output_path : ArgvOutputs, dds_format : DdsFormats,
     use_alpha_flag : BOOLEAN, use_sepalpha : BOOLEAN, mipmap_levels : {0, 1, 2, 9}]

ArgvInit ==
    /\ fn_pc = "call"
    /\ \E c \in ArgvCalls, env \in ChannelEnvs : fn_args = [call |-> c, env |-> env]
    /\ fn_ret = <<>>

\* Texconv(path).convert(...) on a directory that holds the input file
CallConvert ==
    /\ fn_pc = "call"
    /\ LET c == fn_args.call
           f == WriteFile(EmptyFs, c.input_path, [kind |-> "png", of |-> "baked"])
       IN  fn_ret' = TexconvConvert(TexconvInit(fn_args.env.tool, fn_args.env.dll_loads),
                                    c.input_path, c.output_path, c.dds_format,
                                    c.use_alpha_flag, c.use_sepalpha, c.mipmap_levels,
                                    f, fn_args.env)
    /\ fn_pc' = "returned"
    /\ UNCHANGED <<fn_args, valVars, convVars, pipeVars>>

-----------------------------------------------------------------------------
(* bake_pipeline.py: find_texconv_tool *)

\* "//" at the head of a path stands for the directory of the .blend file
RelativeDir == "//tools"
BlendDir == "project/tools"
\* line 372: bpy.path.abspath
Abspath(path) == IF path.dir = RelativeDir THEN [path EXCEPT !.dir = BlendDir] ELSE path

\* lines 380-383: the two add-on paths under APPDATA, in list order
AddonPaths ==
    << [dir |-> "appdata/addons/blender_dds_addon/directx", stem |-> <<"texconv">>, ext |-> "dll"],
       [dir |-> "appdata/addons/blender-dds-addon/directx", stem |-> <<"texconv">>, ext |-> "dll"] >>

\* the values of scene.alamo_texconv_path tried: empty, an absolute path, a
\* path relative to the .blend file, and the second add-on path
ConfiguredPaths ==
    { NoPath, TexconvExe, [dir |-> RelativeDir, stem |-> <<"texconv">>, ext |-> "exe"],
      AddonPaths[2] }

\* every path that may exist on the disks tried
DiskPaths == {Abspath(p) : p \in ConfiguredPaths \ {NoPath}} \cup Range(AddonPaths)

\* the context handed in (or bpy.context): whether it has a scene, whether
\* the scene has the property, and the property's value
ToolContexts ==
    [has_scene : BOOLEAN, has_prop : BOOLEAN, alamo_texconv_path : ConfiguredPaths]

\* lines 371-373: the override is set and exists
ConfiguredPathFound_Unchecked(path, disk) == path # NoPath
ConfiguredPathFound(path, disk) == path # NoPath /\ Abspath(path) \in disk

\* lines 384-386: the first add-on path that exists
RECURSIVE FirstExisting(_, _, _)
FirstExisting(paths, i, disk) ==
    IF i > Len(paths) THEN NoPath
    ELSE IF paths[i] \in disk THEN paths[i]
    ELSE FirstExisting(paths, i + 1, disk)

\* find_texconv_tool; `appdata` is whether APPDATA is set, NoPath stands for None
FindTexconvTool(context, appdata, disk) ==
    IF /\ context.has_scene
       /\ context.has_prop
       /\ ConfiguredPathFound(context.alamo_texconv_path, disk)
    THEN Abspath(context.alamo_texconv_path)
    ELSE IF appdata THEN FirstExisting(AddonPaths, 1, disk)
    ELSE NoPath

FindToolInit ==
    /\ fn_pc = "call"
    /\ \E context \in ToolContexts, appdata \in BOOLEAN, disk \in SUBSET DiskPaths :
         fn_args = [context |-> context, appdata |-> appdata, disk |-> disk]
    /\ fn_ret = <<>>

CallFindTexconvTool ==
    /\ fn_pc = "call"
    /\ fn_ret' = FindTexconvTool(fn_args.context, fn_args.appdata, fn_args.disk)
    /\ fn_pc' = "returned"
    /\ UNCHANGED <<fn_args, valVars, convVars, pipeVars>>

-----------------------------------------------------------------------------
(* validation.py: the rules of the checklist *)

\* line 162: the most bones a skinned mesh may use
MaxBones == 23
\* line 182: the longest bone name
MaxBoneName == 63
\* line 192: the most bones of an armature
MaxArmatureBones == 255

ShadowShaders == {"MeshShadowVolume.fx", "RSkinShadowVolume.fx"}
\* shader names in which str.find("RSkin") succeeds
RSkinShaders == {"RSkinShadowVolume.fx", "RSkinGloss.fx"}

\* what a rule hands back: its findings, or an exception that leaves it
Returns(findings) == [raised |-> FALSE, findings |-> findings]
Raises == [raised |-> TRUE, findings |-> <<>>]
Finding(severity, text, name) == [severity |-> severity, message |-> <<text>> \o name]

\* checkShadowMesh.  A material slot holds a shader name, or None when empty;
\* reading .shaderList of an empty slot raises AttributeError.
checkShadowMesh(object) ==
    IF Len(object.materials) > 0
    THEN IF object.materials[1] = None THEN Raises
         ELSE IF object.materials[1] \in ShadowShaders
         THEN Returns((IF object.nonmanifold_vertex
                       THEN <<Finding("ERROR", "ALAMO - Non manifold geometry shadow mesh: ", object.name)>>
                       ELSE <<>>)
                      \o (IF object.open_edge
                          THEN <<Finding("ERROR", "ALAMO - Non manifold geometry shadow mesh: ", object.name)>>
                          ELSE <<>>))
         ELSE Returns(<<>>)
    ELSE Returns(<<Finding("ERROR", "ALAMO - Missing material on object: ", object.name)>>)

\* lines 65-71: the loop of checkUV over the material slots
RECURSIVE MaterialLoop(_, _, _)
MaterialLoop(object, i, error) ==
    IF i > Len(object.materials) THEN Returns(error)
    ELSE IF object.materials[i] = None THEN Raises
    ELSE LET shadow == IF object.materials[i] \in ShadowShaders /\ Len(object.materials) > 1
                       THEN <<Finding("ERROR", "ALAMO - Multiple materials on shadow volume: ", object.name)>>
                       ELSE <<>>
             collision == IF object.HasCollision /\ Len(object.materials) > 1
                          THEN <<Finding("ERROR", "ALAMO - Multiple submeshes/materials on collision mesh: ", object.name)>>
                          ELSE <<>>
         IN  MaterialLoop(object, i + 1, error \o shadow \o collision)

checkUV(object) ==
    LET loop == MaterialLoop(object, 1, <<>>)
    IN  IF loop.raised THEN Raises
        ELSE Returns(loop.findings \o
                     (IF object.uv_layers = 0
                      THEN <<Finding("ERROR", "ALAMO - Missing UV: ", object.name)>>
                      ELSE <<>>))

checkAutosmooth(object) ==
    LET has_autosmooth ==
            \/ object.use_auto_smooth
            \/ \E i \in 1..Len(object.modifiers) :
                  object.modifiers[i].type = "NODES" /\ object.modifiers[i].name = "Smooth by Angle"
    IN  IF has_autosmooth
        THEN Returns(<<Finding("ERROR", "ALAMO - uses autosmooth: ", object.name)>>)
        ELSE Returns(<<>>)

checkTranslation(object) ==
    IF ~object.at_origin
    THEN Returns(<<Finding("ERROR", "ALAMO - not aligned with the world origin: ", object.name)>>)
    ELSE Returns(<<>>)

checkScale(object) ==
    IF ~object.unit_scale
    THEN Returns(<<Finding("ERROR", "ALAMO - non-identity scale: ", object.name)>>)
    ELSE Returns(<<>>)

\* lines 81-89: the first armature modifier without a skeleton, or with
\* another skeleton than the active one, ends the loop with one finding
RECURSIVE ModifierLoop(_, _, _)
ModifierLoop(object, i, activeSkeleton) ==
    IF i > Len(object.modifiers) THEN <<>>
    ELSE IF object.modifiers[i].type = "ARMATURE"
    THEN IF object.modifiers[i].object = None
         THEN <<Finding("ERROR", "ALAMO - Armature modifier without selected skeleton on: ", object.name)>>
         ELSE IF object.modifiers[i].object # activeSkeleton
         THEN <<Finding("ERROR", "ALAMO - Armature modifier skeleton doesn't match active skeleton on: ", object.name)>>
         ELSE ModifierLoop(object, i + 1, activeSkeleton)
    ELSE ModifierLoop(object, i + 1, activeSkeleton)

\* lines 90-97: the first CHILD_OF constraint on another skeleton
ConstraintFinding(object, activeSkeleton) ==
    IF \E i \in 1..Len(object.constraints) :
           /\ object.constraints[i].type = "CHILD_OF"
           /\ object.constraints[i].target # None
           /\ object.constraints[i].target # activeSkeleton
    THEN <<Finding("ERROR", "ALAMO - Constraint doesn't match active skeleton on: ", object.name)>>
    ELSE <<>>

checkInvalidArmatureModifier(object, activeSkeleton) ==
    Returns(ModifierLoop(object, 1, activeSkeleton) \o ConstraintFinding(object, activeSkeleton))

\* lines 157-160: the groups some vertex has with weight 1
UsedGroups(object) ==
    { k \in 1..object.vertex_groups :
        \E v \in 1..Len(object.vertices) :
          \E g \in 1..Len(object.vertices[v]) :
            object.vertices[v][g].group = k /\ object.vertices[v][g].weight = 10 }

\* validation.py:162  len(set(used_groups)) > 23
TooManyBones(used) == Cardinality(used) > MaxBones

checkNumBones(object) ==
    IF /\ object.type = "MESH"
       /\ object.active_material # None
       /\ object.active_material \in RSkinShaders
       /\ TooManyBones(UsedGroups(object))
    THEN Returns(<<Finding("ERROR", "ALAMO - more than 23 bones: ", object.name)>>)
    ELSE Returns(<<>>)

checkActiveSkeleton(mesh_list, activeSkeleton) ==
    IF /\ activeSkeleton = "None"
       /\ \E m \in 1..Len(mesh_list) :
             \E i \in 1..Len(mesh_list[m].modifiers) :
               /\ mesh_list[m].modifiers[i].type = "ARMATURE"
               /\ mesh_list[m].modifiers[i].object # None
    THEN Returns(<<Finding("ERROR", "ALAMO - Active Skeleton is set to None, but meshes have armature modifiers", <<>>)>>)
    ELSE Returns(<<>>)

\* utils.findArmature() gives the scene's armature, or None: `exists` is false
NoArmature == [exists |-> FALSE, name |-> <<>>, aligned |-> TRUE, bones |-> <<>>]

checkTranslationArmature(armature) ==
    IF armature.exists /\ ~armature.aligned
    THEN Returns(<<Finding("ERROR", "ALAMO - Armature is not aligned with the world origin: ", armature.name)>>)
    ELSE Returns(<<>>)

\* lines 182-185: what one bone adds; a bone is a name, its length and
\* whether it is ASCII
BoneFindings(bone) ==
    (IF bone.length > MaxBoneName
     THEN <<Finding("ERROR", "ALAMO - Bone name too long (> 63 chars): ", bone.name)>>
     ELSE <<>>)
    \o (IF ~bone.ascii
        THEN <<Finding("ERROR", "ALAMO - Bone name contains non-ASCII characters: ", bone.name)>>
        ELSE <<>>)

\* line 181: for bone in armature.data.bones, over the bones lo..hi; the
\* range is halved so that a long list of bones is not a deep evaluation
RECURSIVE BoneLoop(_, _, _)
BoneLoop(bones, lo, hi) ==
    IF lo > hi THEN <<>>
    ELSE IF lo = hi THEN BoneFindings(bones[lo])
    ELSE LET mid == (lo + hi) \div 2
         IN  BoneLoop(bones, lo, mid) \o BoneLoop(bones, mid + 1, hi)

checkBoneNames(armature) ==
    IF armature.exists THEN Returns(BoneLoop(armature.bones, 1, Len(armature.bones)))
    ELSE Returns(<<>>)

checkBoneCount(armature) ==
    IF armature.exists /\ Len(armature.bones) > MaxArmatureBones
    THEN Returns(<<Finding("ERROR", "ALAMO - Armature has too many bones: ", armature.name)>>)
    ELSE Returns(<<>>)

-----------------------------------------------------------------------------
(* validation.py: validate *)

\* most meshes handed to validate
MaxMeshes == 2

\* a mesh no rule objects to
CleanMesh ==
    [name |-> <<"Mesh">>, type |-> "MESH",
     materials |-> <<"MeshGloss.fx">>, active_material |-> "MeshGloss.fx",
     nonmanifold_vertex |-> FALSE, open_edge |-> FALSE, HasCollision |-> FALSE,
     uv_layers |-> 1, loops |-> 100, use_auto_smooth |-> FALSE,
     at_origin |-> TRUE, unit_scale |-> TRUE,
     modifiers |-> <<>>, constraints |-> <<>>,
     vertex_groups |-> 0, vertices |-> <<>>]

\* the meshes tried
MeshKinds ==
    { CleanMesh,
      \* no material and no UV layer
      [CleanMesh EXCEPT !.name = <<"Bare">>, !.materials = <<>>,
                        !.active_material = None, !.uv_layers = 0],
      \* a shadow volume with a non-manifold vertex and an open edge
      [CleanMesh EXCEPT !.name = <<"Shadow">>, !.materials = <<"MeshShadowVolume.fx">>,
                        !.active_material = "MeshShadowVolume.fx",
                        !.nonmanifold_vertex = TRUE, !.open_edge = TRUE],
      \* an empty material slot
      [CleanMesh EXCEPT !.name = <<"Slot">>, !.materials = <<None>>,
                        !.active_material = None],
      \* too many loops, moved, bound to the skeleton "Rig"
      [CleanMesh EXCEPT !.name = <<"Big">>, !.loops = MaxLoops + 1, !.at_origin = FALSE,
                        !.modifiers = <<[type |-> "ARMATURE", name |-> "Armature", object |-> "Rig"]>>],
      \* a collision mesh with two materials, scaled, with a half weight,
      \* and an armature modifier without skeleton
      [CleanMesh EXCEPT !.name = <<"Coll">>, !.materials = <<"MeshGloss.fx", "MeshGloss.fx">>,
                        !.HasCollision = TRUE, !.unit_scale = FALSE,
                        !.vertex_groups = 1,
                        !.vertices = <<<<[group |-> 1, weight |-> 5]>>>>,
                        !.modifiers = <<[type |-> "ARMATURE", name |-> "Armature", object |-> None]>>],
      \* a skinned mesh with autosmooth that uses one bone more than allowed
      [CleanMesh EXCEPT !.name = <<"Skin">>, !.materials = <<"RSkinGloss.fx">>,
                        !.active_material = "RSkinGloss.fx", !.use_auto_smooth = TRUE,
                        !.loops = NearLoops + 1,
                        !.vertex_groups = MaxBones + 1,
                        !.vertices = [v \in 1..(MaxBones + 1) |-> <<[group |-> v, weight |-> 10]>>]] }

\* the armatures tried: none, a sound one, one with a bad bone name that is
\* also moved, and one with a bone too many
ArmatureKinds ==
    { NoArmature,
      [exists |-> TRUE, name |-> <<"Rig">>, aligned |-> TRUE,
       bones |-> <<[name |-> <<"Root">>, length |-> 4, ascii |-> TRUE]>>],
      [exists |-> TRUE, name |-> <<"Rig">>, aligned |-> FALSE,
       bones |-> <<[name |-> <<"Long">>, length |-> MaxBoneName + 1, ascii |-> FALSE],
                   [name |-> <<"Root">>, length |-> 4, ascii |-> TRUE]>>],
      [exists |-> TRUE, name |-> <<"Rig">>, aligned |-> TRUE,
       bones |-> [b \in 1..(MaxArmatureBones + 1) |->
                    [name |-> <<"Bone">>, length |-> 4, ascii |-> TRUE]]] }

\* scene.ActiveSkeleton.skeletonEnum
ActiveSkeletons == {"None", "Rig", "Other"}

\* lines 233-243: the per-object rules, in the order of the checklist
Checklist ==
    <<"checkShadowMesh", "checkUV", "checkFaceNumber", "checkAutosmooth",
      "checkTranslation", "checkInvalidArmatureModifier", "checkScale",
      "checkVertexGroups", "checkNumBones">>
\* lines 244-249: the rules without an object
ChecklistNoObject == <<"checkTranslationArmature", "checkBoneNames", "checkBoneCount">>

\* check(object)
ApplyCheck(check, object, scene) ==
    CASE check = "checkShadowMesh" -> checkShadowMesh(object)
      [] check = "checkUV" -> checkUV(object)
      [] check = "checkFaceNumber" -> Returns(checkFaceNumber(object))
      [] check = "checkAutosmooth" -> checkAutosmooth(object)
      [] check = "checkTranslation" -> checkTranslation(object)
      [] check = "checkInvalidArmatureModifier" ->
             checkInvalidArmatureModifier(object, scene.activeSkeleton)
      [] check = "checkScale" -> checkScale(object)
      [] check = "checkVertexGroups" -> Returns(checkVertexGroups(object))
      [] check = "checkNumBones" -> checkNumBones(object)

\* check()
ApplyCheckNoObject(check, scene) ==
    CASE check = "checkTranslationArmature" -> checkTranslationArmature(scene.armature)
      [] check = "checkBoneNames" -> checkBoneNames(scene.armature)
      [] check = "checkBoneCount" -> checkBoneCount(scene.armature)

\* line 253, 255, 258:  errors += ...
Accumulate_FirstOnly(errors, findings) == IF errors = <<>> THEN findings ELSE errors
Accumulate(errors, findings) == errors \o findings

\* one more call is on record: its findings are added, or its exception
\* leaves validate
Called(acc, call, result) ==
    [raised |-> result.raised,
     errors |-> IF result.raised THEN acc.errors ELSE Accumulate(acc.errors, result.findings),
     calls  |-> Append(acc.calls, call)]

\* lines 252-253: for object in mesh_list
RECURSIVE ObjectLoop(_, _, _, _, _)
ObjectLoop(check, mesh_list, scene, i, acc) ==
    IF acc.raised \/ i > Len(mesh_list) THEN acc
    ELSE ObjectLoop(check, mesh_list, scene, i + 1,
                    Called(acc, <<check, i>>, ApplyCheck(check, mesh_list[i], scene)))

\* lines 251-253: for check in checklist
RECURSIVE ChecklistLoop(_, _, _, _)
ChecklistLoop(mesh_list, scene, c, acc) ==
    IF acc.raised \/ c > Len(Checklist) THEN acc
    ELSE ChecklistLoop(mesh_list, scene, c + 1,
                       ObjectLoop(Checklist[c], mesh_list, scene, 1, acc))

\* lines 257-258: for check in checklist_no_object
RECURSIVE NoObjectLoop(_, _, _)
NoObjectLoop(scene, c, acc) ==
    IF acc.raised \/ c > Len(ChecklistNoObject) THEN acc
    ELSE NoObjectLoop(scene, c + 1,
                      Called(acc, <<ChecklistNoObject[c], 0>>,
                             ApplyCheckNoObject(ChecklistNoObject[c], scene)))

\* validate: the list returned (`errors`), or `raised` when an exception
\* leaves it, and the rule calls made, in order (mesh index 0: no object)
validate(mesh_list, scene) ==
    LET objects_done == ChecklistLoop(mesh_list, scene, 1,
                                      [raised |-> FALSE, errors |-> <<>>, calls |-> <<>>])
        skeleton_done == IF objects_done.raised THEN objects_done
                         ELSE Called(objects_done, <<"checkActiveSkeleton", 0>>,
                                     checkActiveSkeleton(mesh_list, scene.activeSkeleton))
    IN  NoObjectLoop(scene, 1, skeleton_done)

MeshLists == UNION { [1..n -> MeshKinds] : n \in 0..MaxMeshes }

ValidateInit ==
    /\ fn_pc = "call"
    /\ \E mesh_list \in MeshLists, activeSkeleton \in ActiveSkeletons, armature \in ArmatureKinds :
         fn_args = [mesh_list |-> mesh_list,
                    scene |-> [activeSkeleton |-> activeSkeleton, armature |-> armature]]
    /\ fn_ret = <<>>

\* validate(mesh_list) is called and returns its list, or raises
CallValidate ==
    /\ fn_pc = "call"
    /\ fn_ret' = validate(fn_args.mesh_list, fn_args.scene)
    /\ fn_pc' = IF fn_ret'.raised THEN "raised" ELSE "returned"
    /\ UNCHANGED <<fn_args, valVars, convVars, pipeVars>>

-----------------------------------------------------------------------------
(* No function call is under way *)

FnIdleInit ==
    /\ fn_pc = "idle"
    /\ fn_args = <<>>
    /\ fn_ret = <<>>

-----------------------------------------------------------------------------
(* Specifications *)

PipeNext ==
    \/ Enter
    \/ Prepare
    \/ Setup
    \/ Bake
    \/ Alpha
    \/ Convert
    \/ Separate
    \/ CreateMaterial
    \/ Cleanup

\* one call of run_pipeline
Init == PipeInit /\ ValIdleInit /\ ConvIdleInit /\ FnIdleInit
Spec == Init /\ [][PipeNext]_vars

\* one call of save_image_as_dds
InitConv == ConvInit /\ ValIdleInit /\ PipeIdleInit /\ FnIdleInit
SpecConv == InitConv /\ [][CallSaveImageAsDds]_vars

\* one call of checkVertexGroups
InitVertexGroups == ValInit /\ ConvIdleInit /\ PipeIdleInit /\ FnIdleInit
SpecVertexGroups == InitVertexGroups /\ [][CheckVertexGroups]_vars

\* one call of checkFaceNumber
InitFaceNumber == FaceNumberInit /\ ValIdleInit /\ ConvIdleInit /\ PipeIdleInit
SpecFaceNumber == InitFaceNumber /\ [][CheckFaceNumber]_vars

\* one call of process_alpha_channel
InitAlpha == AlphaInit /\ ValIdleInit /\ ConvIdleInit /\ PipeIdleInit
SpecAlpha == InitAlpha /\ [][CallProcessAlphaChannel]_vars

\* one channel of run_pipeline, from its arguments to the converter
InitChannel == ChannelInit /\ ValIdleInit /\ ConvIdleInit /\ PipeIdleInit
SpecChannel == InitChannel /\ [][ConvertChannel]_vars

\* one call of Texconv.convert
InitArgv == ArgvInit /\ ValIdleInit /\ ConvIdleInit /\ PipeIdleInit
SpecArgv == InitArgv /\ [][CallConvert]_vars

\* one call of find_texconv_tool
InitFindTool == FindToolInit /\ ValIdleInit /\ ConvIdleInit /\ PipeIdleInit
SpecFindTool == InitFindTool /\ [][CallFindTexconvTool]_vars

\* one call of validate
InitValidate == ValidateInit /\ ValIdleInit /\ ConvIdleInit /\ PipeIdleInit
SpecValidate == InitValidate /\ [][CallValidate]_vars

-----------------------------------------------------------------------------
(* Claims about run_pipeline, checked under Spec *)

Exited == pc \in {"done", "raised", "returned_none"}
BakeFailedAt(i) == log[i][1] = "bake" /\ log[i][3] = "failed"

\* C1: when the bake operation fails for a channel the whole request is
\* aborted: nothing is done after the failed bake (no alpha processing, no
\* save, no converter call, no separation, no material), there is no
\* texture_results entry for that channel, and run_pipeline does not return
\* normally.
C1_BakeFailureIsFatal ==
    \A i \in 1..Len(log) :
        BakeFailedAt(i) =>
            /\ i = Len(log)
            /\ ParamName(log[i][2]) \notin DOMAIN texture_results
            /\ ret.kind # "returned"

\* C2: after a successful run every returned mesh has exactly one UV layer,
\* the atlas layer the preparer created, for one source and for several.
C2_OnlyAtlasUvLayer ==
    pc = "done" =>
        \A k \in 1..Len(ret.objs) :
            scene_objs[ret.objs[k]].uv_layers = <<PreparerUvName>>

\* C3: on every exit of run_pipeline, normal or by an exception, no material
\* that setup_baking_material put bake nodes into still has a node whose name
\* starts with BAKE_.
C3_NoBakeNodesLeft ==
    Exited =>
        \A m \in touched : \A n \in materials[m].nodes : ~IsBakeNode(n)

\* C4: every call of bake_pass, whether the bake succeeds or raises, leaves
\* the render engine as it was when bake_pass was entered.
C4_BakePassRestoresEngine == [][pc = "bake" => engine' = engine]_vars

\* C4 witness: a bake has failed while another engine than CYCLES was set, and
\* that engine is set again.
C4_Witness ==
    /\ \E i \in 1..Len(log) : BakeFailedAt(i)
    /\ entry.engine # "CYCLES"
    /\ engine = entry.engine

\* C5: on every exit of run_pipeline the active object, the selection and the
\* render engine are what they were when it was entered.
C5_ContextRestored ==
    Exited =>
        /\ active = entry.active
        /\ selected = entry.selected
        /\ engine = entry.engine

\* no two metadata entries have vertex counts within the tolerance
CountsApart(entries) ==
    \A i, j \in 1..Len(entries) :
        i # j => ~(Abs(entries[i].vertex_count - entries[j].vertex_count) < Tolerance)

\* the separated components matched to the source called name
MatchedTo(name) == {k \in 1..Len(separated_objs) : scene_objs[separated_objs[k]].matched = name}

\* C8: when several sources are merged and split again and no two of them have
\* vertex counts within 5 of each other, exactly N components are renamed, one
\* per source.
C8_AtlasRoundTrip ==
    (separated_objs # <<>> /\ ~metadata.none /\ CountsApart(metadata.entries)) =>
        /\ Cardinality({k \in 1..Len(separated_objs) :
                          scene_objs[separated_objs[k]].matched # <<>>}) = Len(objects)
        /\ \A e \in 1..Len(metadata.entries) :
             Cardinality(MatchedTo(metadata.entries[e].original_name)) = 1

-----------------------------------------------------------------------------
(* Claims about save_image_as_dds and Texconv.convert, checked under SpecConv *)

ConvDdsPath == SplitextPlus(conv_call.save_path, <<>>, "dds")
\* the call where no converter is found and image.save() works
NoToolCall ==
    /\ conv_pc = "returned"
    /\ conv_env.tool = NoPath
    /\ conv_env.save_temp = "ok"
    /\ conv_env.save_final = "ok"
\* a PNG of the image is at save_path, its base name is returned, and the
\* converter was not invoked
PngFallbackDone ==
    /\ Exists(conv_fs, conv_call.save_path)
    /\ conv_fs[conv_call.save_path] = [kind |-> "png", of |-> "baked"]
    /\ conv_out.result = Basename(conv_call.save_path)
    /\ ~conv_out.called
    /\ conv_out.convert.invoked = "none"

EffectiveOutcome ==
    IF conv_out.convert.invoked = "exe" /\ conv_env.tool.ext = "dll"
    THEN "raise" ELSE conv_env.outcome

\* C7: Texconv.convert returns False when the converter returns a non-zero
\* code, when the invocation raises, and when the output file is missing
\* afterwards; it returns True only when the file made by this conversion is
\* at output_path.
C7_ConvertReportsFailure ==
    (conv_pc \in {"returned", "raised"} /\ conv_out.called) =>
        /\ EffectiveOutcome \in {"nonzero", "raise"} => ~conv_out.convert.ret
        /\ ~Exists(conv_fs, ConvDdsPath) => ~conv_out.convert.ret
        /\ conv_out.convert.ret =>
             /\ Exists(conv_fs, ConvDdsPath)
             /\ conv_fs[ConvDdsPath] = [kind |-> "dds", of |-> "baked"]

-----------------------------------------------------------------------------
(* Claims about checkVertexGroups, checked under SpecVertexGroups *)

VertexWeights(v) == [i \in 1..Len(v) |-> v[i].weight]
\* a vertex that breaks neither rule
VertexValid(v) ==
    /\ \A i \in 1..Len(v) : v[i].weight \in {0, 10}
    /\ SumSeq(VertexWeights(v)) \in {0, 10}
\* a vertex in two groups with the weights 0.5 and 0.5
HalfHalf(v) == Len(v) = 2 /\ v[1].weight = 5 /\ v[2].weight = 5
\* the mesh of the claim: vertex groups, a half-half vertex, the others valid
HalfHalfMesh(object) ==
    /\ object.vertex_groups > 0
    /\ \E i \in 1..Len(object.vertices) : HalfHalf(object.vertices[i])
    /\ \A i \in 1..Len(object.vertices) :
         HalfHalf(object.vertices[i]) \/ VertexValid(object.vertices[i])

\* C9 as claimed: a mesh in which a vertex carries the weights 0.5 and 0.5 and
\* every other vertex is valid gets no finding.
C9_HalfHalfPasses ==
    (val_pc = "checked" /\ HalfHalfMesh(val_object)) => val_result = <<>>

\* C9 as amended: a mesh in which a vertex carries the weights 0.5 and 0.5 and
\* every other vertex is valid gets exactly one ERROR finding, because each
\* single weight must be 0 or 1.
C9_HalfHalfFails ==
    (val_pc = "checked" /\ HalfHalfMesh(val_object)) =>
        /\ Len(val_result) = 1
        /\ val_result[1].severity = "ERROR"

\* C9 witness: the rule was applied to a mesh with a half-half vertex and a
\* second, valid vertex.
C9_Witness ==
    /\ val_pc = "checked"
    /\ HalfHalfMesh(val_object)
    /\ \E i \in 1..Len(val_object.vertices) : VertexValid(val_object.vertices[i])

-----------------------------------------------------------------------------
(* Claims about checkFaceNumber, checked under SpecFaceNumber *)

Severities(findings) == [i \in 1..Len(findings) |-> findings[i].severity]

\* C11: for every loop count L the rule returns exactly one ERROR finding if
\* and only if L > 65535, exactly one WARNING finding and no ERROR if and only
\* if 60000 < L <= 65535, and the empty list if and only if L <= 60000; an
\* error and a warning are never returned together.
C11_FaceNumberBands ==
    fn_pc = "returned" =>
        LET L == fn_args.loops
        IN  /\ (Severities(fn_ret) = <<"ERROR">>) <=> (L > 65535)
            /\ (Severities(fn_ret) = <<"WARNING">>) <=> (60000 < L /\ L <= 65535)
            /\ (fn_ret = <<>>) <=> (L <= 60000)
            /\ Len(fn_ret) <= 1

\* C11 witness: a mesh with exactly 65535 loops was checked and got the
\* warning, not the error.
C11_Witness ==
    /\ fn_pc = "returned"
    /\ fn_args.loops = 65535
    /\ Severities(fn_ret) = <<"WARNING">>

-----------------------------------------------------------------------------
(* Claims about process_alpha_channel, checked under SpecAlpha *)

PixelCount(image) == image.size[1] * image.size[2]
\* channel c (1..4: R, G, B, A) of pixel i (1..PixelCount) of a flat buffer
Chan(pixels, i, c) == pixels[4 * (i - 1) + c]
AlphaReturned(mode) == fn_pc = "returned" /\ fn_args.alpha_mode = mode

\* C12: in CONSTANT mode with alpha_value v in 0..255 every pixel's alpha
\* becomes v/255 and its R, G and B stay as they were; in PRESERVE mode no
\* pixel changes.
C12_ConstantAndPreserve ==
    /\ AlphaReturned("CONSTANT") =>
          /\ fn_ret.size = fn_args.image.size
          /\ Len(fn_ret.pixels) = Len(fn_args.image.pixels)
          /\ \A i \in 1..PixelCount(fn_args.image) :
                /\ Chan(fn_ret.pixels, i, 4) * 255 = fn_args.alpha_value * One
                /\ \A c \in 1..3 : Chan(fn_ret.pixels, i, c) = Chan(fn_args.image.pixels, i, c)
    /\ AlphaReturned("PRESERVE") => fn_ret = fn_args.image

\* C12 witness: CONSTANT with alpha_value 128 was applied to two pixels whose
\* alpha differed before.
C12_Witness ==
    /\ AlphaReturned("CONSTANT")
    /\ fn_args.alpha_value = 128
    /\ PixelCount(fn_args.image) = 2
    /\ Chan(fn_args.image.pixels, 1, 4) # Chan(fn_args.image.pixels, 2, 4)
    /\ Chan(fn_ret.pixels, 2, 4) = Byte(128)

\* C13: in EXTRACT_SATURATION mode every pixel ends with alpha 0.0 or 1.0 and
\* with R = G = B = 0.299 R + 0.587 G + 0.114 B of its input colour.
C13_GrayAndBinaryAlpha ==
    AlphaReturned("EXTRACT_SATURATION") =>
        /\ Len(fn_ret.pixels) = Len(fn_args.image.pixels)
        /\ \A i \in 1..PixelCount(fn_args.image) :
              /\ Chan(fn_ret.pixels, i, 4) \in {0, One}
              /\ \A c \in 1..3 :
                    Chan(fn_ret.pixels, i, c) * 1000 =
                        299 * Chan(fn_args.image.pixels, i, 1)
                        + 587 * Chan(fn_args.image.pixels, i, 2)
                        + 114 * Chan(fn_args.image.pixels, i, 3)

\* C13 witness: EXTRACT_SATURATION was applied to two pixels of different
\* colours, neither of them gray, and they came out with different grays.
C13_Witness ==
    /\ AlphaReturned("EXTRACT_SATURATION")
    /\ PixelCount(fn_args.image) = 2
    /\ \A i \in 1..2 : Chan(fn_args.image.pixels, i, 1) # Chan(fn_args.image.pixels, i, 2)
    /\ Chan(fn_ret.pixels, 1, 1) # Chan(fn_ret.pixels, 2, 1)

\* the saturation (max - min) / max of the input colour of pixel i is
\* strictly greater than 0.1 (it is 0 when max is 0)
InputSaturationOver(i) ==
    LET hi == Max3(Chan(fn_args.image.pixels, i, 1), Chan(fn_args.image.pixels, i, 2),
                   Chan(fn_args.image.pixels, i, 3))
        lo == Min3(Chan(fn_args.image.pixels, i, 1), Chan(fn_args.image.pixels, i, 2),
                   Chan(fn_args.image.pixels, i, 3))
    IN  hi > 0 /\ 10 * (hi - lo) > hi
InputSaturationTenth(i) ==
    LET hi == Max3(Chan(fn_args.image.pixels, i, 1), Chan(fn_args.image.pixels, i, 2),
                   Chan(fn_args.image.pixels, i, 3))
        lo == Min3(Chan(fn_args.image.pixels, i, 1), Chan(fn_args.image.pixels, i, 2),
                   Chan(fn_args.image.pixels, i, 3))
    IN  hi > 0 /\ 10 * (hi - lo) = hi

\* C14: in EXTRACT_SATURATION mode a pixel's alpha becomes 1.0 if and only if
\* its saturation is strictly greater than 0.1; saturation exactly 0.1 and
\* black give alpha 0.0.
C14_SaturationThreshold ==
    AlphaReturned("EXTRACT_SATURATION") =>
        \A i \in 1..PixelCount(fn_args.image) :
            /\ (Chan(fn_ret.pixels, i, 4) = One) <=> InputSaturationOver(i)
            /\ InputSaturationTenth(i) => Chan(fn_ret.pixels, i, 4) = 0
            /\ (\A c \in 1..3 : Chan(fn_args.image.pixels, i, c) = 0) =>
                   Chan(fn_ret.pixels, i, 4) = 0

\* C14 witness: a pixel of saturation exactly 0.1 came out with alpha 0.0
\* next to a pixel above the threshold that came out with alpha 1.0.
C14_Witness ==
    /\ AlphaReturned("EXTRACT_SATURATION")
    /\ PixelCount(fn_args.image) = 2
    /\ InputSaturationTenth(1) /\ Chan(fn_ret.pixels, 1, 4) = 0
    /\ InputSaturationOver(2) /\ Chan(fn_ret.pixels, 2, 4) = One

-----------------------------------------------------------------------------
(* Claims about the converter flags of run_pipeline, checked under SpecChannel *)

\* the converter was run for the channel; its argument vector is recorded
ChannelConverted == fn_pc = "returned" /\ fn_ret.convert.invoked # "none"
ChannelArgv == fn_ret.convert.argv
ChannelFormat ==
    IF fn_args.bake_type = "NORMAL" THEN fn_args.a.dds_format_normal
    ELSE fn_args.a.dds_format_diffuse
HasFlag(argv, flag) == \E i \in 1..Len(argv) : argv[i] = <<flag>>
\* the flag is in the vector and the argument after it is `value`
HasFlagValue(argv, flag, value) ==
    \E i \in 1..(Len(argv) - 1) : argv[i] = <<flag>> /\ argv[i + 1] = <<value>>

\* C15 as claimed: -sepalpha is passed for every channel whose format is
\* BC3_UNORM, diffuse and normal alike, and for no other format.
C15_SepalphaForBc3 ==
    ChannelConverted =>
        (HasFlag(ChannelArgv, "-sepalpha") <=> ChannelFormat = "BC3_UNORM")

\* C15 as amended: -sepalpha is passed exactly for the diffuse channel when
\* its format is BC3_UNORM; it is never passed for the normal channel,
\* whatever its format.
C15_SepalphaForDiffuseBc3 ==
    ChannelConverted =>
        (HasFlag(ChannelArgv, "-sepalpha") <=>
            (fn_args.bake_type = "DIFFUSE" /\ ChannelFormat = "BC3_UNORM"))

\* C15 witness: the normal channel was converted to BC3_UNORM and the
\* converter got no -sepalpha.
C15_Witness ==
    /\ ChannelConverted
    /\ fn_args.bake_type = "NORMAL"
    /\ ChannelFormat = "BC3_UNORM"
    /\ ~HasFlag(ChannelArgv, "-sepalpha")

\* C16 as claimed: -alpha is passed for a channel exactly when its format is
\* BC1_UNORM and use_bc1_alpha_flag is true, and never together with
\* -sepalpha.
C16_AlphaForBc1 ==
    ChannelConverted =>
        /\ HasFlag(ChannelArgv, "-alpha") <=>
               (ChannelFormat = "BC1_UNORM" /\ fn_args.a.use_bc1_alpha_flag)
        /\ ~(HasFlag(ChannelArgv, "-alpha") /\ HasFlag(ChannelArgv, "-sepalpha"))

\* C16 as amended: -alpha is passed exactly for the diffuse channel when its
\* format is BC1_UNORM and use_bc1_alpha_flag is true, never for the normal
\* channel, and never together with -sepalpha.
C16_AlphaForDiffuseBc1 ==
    ChannelConverted =>
        /\ HasFlag(ChannelArgv, "-alpha") <=>
               (/\ fn_args.bake_type = "DIFFUSE"
                /\ ChannelFormat = "BC1_UNORM"
                /\ fn_args.a.use_bc1_alpha_flag)
        /\ ~(HasFlag(ChannelArgv, "-alpha") /\ HasFlag(ChannelArgv, "-sepalpha"))

\* C16 witness: the normal channel was converted to BC1_UNORM with
\* use_bc1_alpha_flag true and the converter got no -alpha.
C16_Witness ==
    /\ ChannelConverted
    /\ fn_args.bake_type = "NORMAL"
    /\ ChannelFormat = "BC1_UNORM"
    /\ fn_args.a.use_bc1_alpha_flag
    /\ ~HasFlag(ChannelArgv, "-alpha")

\* C17: the argument vector carries "-m 1" when run_pipeline is asked for
\* level 1 (or for 0, its word for no mip chain), "-m N" when asked for
\* N > 1, and no mip flag when the value asks for no level (a negative
\* mipmap_levels); each of the three is what some mipmap_levels produces.
C17_MipFlagFollowsRequest ==
    ChannelConverted =>
        LET m == fn_args.a.mipmap_levels
        IN  /\ m \in {0, 1} => HasFlagValue(ChannelArgv, "-m", "1")
            /\ m > 1 => HasFlagValue(ChannelArgv, "-m", Str(m))
            /\ m < 0 => ~HasFlag(ChannelArgv, "-m")
            /\ \A i \in 1..Len(ChannelArgv), j \in 1..Len(ChannelArgv) :
                  (ChannelArgv[i] = <<"-m">> /\ ChannelArgv[j] = <<"-m">>) => i = j

\* C17 witness: a run_pipeline caller got the full mip chain: the converter
\* ran with no -m in its arguments.
C17_Witness ==
    /\ ChannelConverted
    /\ ~HasFlag(ChannelArgv, "-m")
    /\ HasFlag(ChannelArgv, "-f")

-----------------------------------------------------------------------------
(* Claims about the argument vector of Texconv.convert, checked under SpecArgv *)

\* the arguments of the contract for the call of this state, without the
\* input path: format selector, overwrite, output directory, then the
\* optional mip, separate-alpha and binary-alpha flags
ContractOptions ==
    LET c == fn_args.call
    IN  << <<"-f">>, <<c.dds_format>>, <<"-y">>, <<"-o">>, <<c.output_path.dir>> >>
        \o (IF c.mipmap_levels >= 1
            THEN << <<"-m">>, <<Str(c.mipmap_levels)>> >> ELSE <<>>)
        \o (IF c.use_sepalpha THEN << <<"-sepalpha">> >> ELSE <<>>)
        \o (IF c.use_alpha_flag THEN << <<"-alpha">> >> ELSE <<>>)
ContractInput == PathStr(fn_args.call.input_path)
ArgvBuilt(strategy) == fn_pc = "returned" /\ fn_ret.invoked = strategy

\* C18 as claimed: for every combination of arguments both strategies build
\* the same arguments in the same order, ending with the input path; the
\* process form differs only by the leading executable path.
C18_SameArgumentVector ==
    /\ ArgvBuilt("dll") => fn_ret.argv = ContractOptions \o <<ContractInput>>
    /\ ArgvBuilt("exe") =>
          fn_ret.argv = <<PathStr(fn_args.env.tool)>> \o ContractOptions \o <<ContractInput>>

\* C18 as amended: both strategies build the same options in the same
\* order; the DLL form then puts the separator "--" before the input path,
\* the process form has no separator and starts with the executable path.
C18_SameOptionsDllSeparator ==
    /\ ArgvBuilt("dll") =>
          fn_ret.argv = ContractOptions \o << <<"--">>, ContractInput >>
    /\ ArgvBuilt("exe") =>
          fn_ret.argv = <<PathStr(fn_args.env.tool)>> \o ContractOptions \o <<ContractInput>>

\* C18 witness: the DLL strategy was called with a mip level and both alpha
\* flags and built a vector that holds "--".
C18_Witness ==
    /\ ArgvBuilt("dll")
    /\ fn_args.call.mipmap_levels = 2
    /\ fn_args.call.use_sepalpha /\ fn_args.call.use_alpha_flag
    /\ \E i \in 1..Len(fn_ret.argv) : fn_ret.argv[i] = <<"--">>

-----------------------------------------------------------------------------
(* Claims about find_texconv_tool, checked under SpecFindTool *)

\* the path the user configured, as far as the context shows one, resolved
\* against the .blend file; NoPath when none is configured
UserPath ==
    IF fn_args.context.has_scene /\ fn_args.context.has_prop
    THEN (IF fn_args.context.alamo_texconv_path.dir = "//tools"
          THEN [fn_args.context.alamo_texconv_path EXCEPT !.dir = "project/tools"]
          ELSE fn_args.context.alamo_texconv_path)
    ELSE NoPath
UserPathExists == UserPath # NoPath /\ UserPath \in fn_args.disk
\* the add-on paths that exist, where APPDATA is set
AddonExists(i) == fn_args.appdata /\ AddonPaths[i] \in fn_args.disk

\* C19: the configured path is returned whenever it is non-empty and exists,
\* whether or not an add-on DLL exists as well; otherwise the first existing
\* add-on path in list order; otherwise None.  A path that does not exist is
\* never returned.
C19_DiscoveryOrder ==
    fn_pc = "returned" =>
        /\ UserPathExists => fn_ret = UserPath
        /\ (~UserPathExists /\ AddonExists(1)) => fn_ret = AddonPaths[1]
        /\ (~UserPathExists /\ ~AddonExists(1) /\ AddonExists(2)) => fn_ret = AddonPaths[2]
        /\ (~UserPathExists /\ ~AddonExists(1) /\ ~AddonExists(2)) => fn_ret = NoPath
        /\ fn_ret # NoPath => fn_ret \in fn_args.disk

\* C19 witness: a configured executable exists, the first add-on DLL exists
\* too, and the configured path was returned.
C19_Witness ==
    /\ fn_pc = "returned"
    /\ UserPathExists
    /\ UserPath.ext = "exe"
    /\ AddonExists(1)
    /\ fn_ret = UserPath

-----------------------------------------------------------------------------
(* Claims about validate, checked under SpecValidate *)

\* the rule calls the claim asks for, in its order: rule by rule over all
\* meshes, then the active-skeleton rule, then the armature rules
ExpectedCalls ==
    LET n == Len(fn_args.mesh_list)
    IN  [k \in 1..(9 * n) |-> <<Checklist[((k - 1) \div n) + 1], ((k - 1) % n) + 1>>]
        \o << <<"checkActiveSkeleton", 0>>, <<"checkTranslationArmature", 0>>,
               <<"checkBoneNames", 0>>, <<"checkBoneCount", 0>> >>

\* what one rule call gives for the meshes and the scene of this state
ResultOfCall(call) ==
    IF call[2] > 0 THEN ApplyCheck(call[1], fn_args.mesh_list[call[2]], fn_args.scene)
    ELSE IF call[1] = "checkActiveSkeleton"
    THEN checkActiveSkeleton(fn_args.mesh_list, fn_args.scene.activeSkeleton)
    ELSE ApplyCheckNoObject(call[1], fn_args.scene)

\* the findings of calls k.. of a list of calls, one after the other
RECURSIVE FindingsFrom(_, _)
FindingsFrom(calls, k) ==
    IF k > Len(calls) THEN <<>>
    ELSE ResultOfCall(calls[k]).findings \o FindingsFrom(calls, k + 1)

\* C20: when validate returns, every per-object rule was run on every mesh,
\* rule by rule and within a rule in mesh order, then the active-skeleton
\* rule, then the armature rules, whatever the earlier calls found; and the
\* list returned is the results of these calls put one after the other,
\* nothing dropped.
C20_AllRulesInOrder ==
    fn_pc = "returned" =>
        /\ fn_ret.calls = ExpectedCalls
        /\ fn_ret.errors = FindingsFrom(ExpectedCalls, 1)

\* C20 witness: two meshes; the first rule reported both of them (the second
\* twice), and the second rule's finding on the first mesh comes after
\* these; an armature finding closes the list.
C20_Witness ==
    /\ fn_pc = "returned"
    /\ Len(fn_args.mesh_list) = 2
    /\ Len(fn_ret.errors) >= 5
    /\ fn_ret.errors[1].message = <<"ALAMO - Missing material on object: ", "Bare">>
    /\ fn_ret.errors[2].message = <<"ALAMO - Non manifold geometry shadow mesh: ", "Shadow">>
    /\ fn_ret.errors[3].message = <<"ALAMO - Non manifold geometry shadow mesh: ", "Shadow">>
    /\ fn_ret.errors[4].message = <<"ALAMO - Missing UV: ", "Bare">>
    /\ fn_ret.errors[Len(fn_ret.errors)].message =
           <<"ALAMO - Armature has too many bones: ", "Rig">>

\* C21: validate never raises: for every mesh_list, meshes with an empty
\* material slot, without materials or with an armature modifier without
\* target included, it returns a list whose findings are all ERROR or WARNING.
C21_ValidateNeverRaises ==
    fn_pc # "call" =>
        /\ fn_pc = "returned"
        /\ \A i \in 1..Len(fn_ret.errors) : fn_ret.errors[i].severity \in {"ERROR", "WARNING"}

\* the places of the list returned that hold the 'Non manifold geometry'
\* finding of the mesh of this name
NonManifoldFindings(name) ==
    { k \in 1..Len(fn_ret.errors) :
        fn_ret.errors[k] = Finding("ERROR", "ALAMO - Non manifold geometry shadow mesh: ", name) }

\* C22: the manifold scan of a shadow-volume mesh stops at the first
\* disqualifying element, so a mesh (one that is in the list once) yields at
\* most one 'Non manifold geometry' finding, and the rules and meshes after
\* it are still evaluated.
C22_OneManifoldFinding ==
    fn_pc = "returned" =>
        /\ fn_ret.calls = ExpectedCalls
        /\ \A i \in 1..Len(fn_args.mesh_list) :
              (\A j \in 1..Len(fn_args.mesh_list) : j # i => fn_args.mesh_list[j] # fn_args.mesh_list[i])
              => Cardinality(NonManifoldFindings(fn_args.mesh_list[i].name)) <= 1

-----------------------------------------------------------------------------
(* Claims about the shared material and the files of run_pipeline, under Spec *)

\* C23: after a successful run every returned object has exactly one material
\* slot, all returned objects hold the same material of the store in it, and
\* no material an object had before the assignment is assigned to it still.
C23_OneSharedMaterial ==
    [][/\ (pc = "material" /\ pc' = "cleanup") =>
            /\ \E m \in DOMAIN materials' :
                  \A i \in 1..Len(separated_objs) : scene_objs'[separated_objs[i]].mats = <<m>>
            /\ \A i \in 1..Len(separated_objs) :
                  Range(scene_objs[separated_objs[i]].mats)
                    \cap Range(scene_objs'[separated_objs[i]].mats) = {}
       /\ (pc = "cleanup" /\ pc' = "done") =>
            /\ ret'.objs = separated_objs
            /\ \A i \in 1..Len(separated_objs) :
                  scene_objs'[separated_objs[i]].mats = scene_objs[separated_objs[i]].mats]_vars

-----------------------------------------------------------------------------
(* Claims about the conversion boundary, checked under SpecConv *)

\* C24: no error leaves save_image_as_dds or Texconv.convert: a failing
\* rename, remove, launch, DLL call or image save ends in a False or None
\* result or in the PNG fallback, never in an exception.
C24_NoErrorEscapes ==
    conv_pc # "call" =>
        /\ conv_pc = "returned"
        /\ (conv_out.called /\ EffectiveOutcome \in {"nonzero", "raise"}) => ~conv_out.convert.ret
        /\ conv_out.result \in {NoName, Basename(ConvDdsPath), Basename(conv_call.save_path)}

\* C25: when a conversion is reported as succeeded (save_image_as_dds returns
\* the .dds name), the file at the output path is the one the converter made
\* in this call from the image; a file that was there before is never what
\* is reported.
C25_ResultIsThisConversion ==
    (conv_pc = "returned" /\ conv_out.result = Basename(ConvDdsPath)) =>
        /\ conv_out.convert.ret
        /\ EffectiveOutcome = "ok"
        /\ Exists(conv_fs, ConvDdsPath)
        /\ conv_fs[ConvDdsPath] = [kind |-> "dds", of |-> conv_image.pixels]

\* the '<base>_temp.png' of the call
ConvTempPath == SplitextPlus(conv_call.save_path, <<"_temp">>, "png")

\* C26: after save_image_as_dds returns, on every path, the temporary
\* '<base>_temp.png' is gone and the image's filepath_raw and file_format are
\* what they were before the call.
C26_TempGoneImageRestored ==
    conv_pc = "returned" =>
        /\ ~Exists(conv_fs, ConvTempPath)
        /\ conv_image.filepath_raw = BlankImage(<<>>).filepath_raw
        /\ conv_image.file_format = BlankImage(<<>>).file_format

-----------------------------------------------------------------------------
(* Claims about the run of run_pipeline as a whole, checked under Spec *)

\* the material in the slot of the first returned object
ReturnedMaterial == materials[scene_objs[ret.objs[1]].mats[1]]
\* the file of this name in the export directory
InExportDir(name) == [dir |-> ExportDir, stem |-> name.stem, ext |-> name.ext]

\* C27: after a successful run, BaseTexture and NormalTexture of the shared
\* material each name the file recorded in texture_results for the channel,
\* and that file is in the export directory, after a conversion as well as
\* after the PNG fallback.
C27_ParamsNameArtifacts ==
    pc = "done" =>
        \A p \in {"BaseTexture", "NormalTexture"} :
            /\ ReturnedMaterial[p] = texture_results[p]
            /\ Exists(fs, InExportDir(ReturnedMaterial[p]))

\* the steps of the log without their outcomes
StepsOf(lg) == [i \in 1..Len(lg) |-> IF Len(lg[i]) > 1 THEN <<lg[i][1], lg[i][2]>> ELSE lg[i]]
\* the order of the claim; the diffuse buffer is saved again after its alpha
\* post-processing
FixedOrder ==
    << <<"prepare">>, <<"setup">>,
       <<"bake", "DIFFUSE">>, <<"alpha", "DIFFUSE">>, <<"save", "DIFFUSE">>, <<"convert", "DIFFUSE">>,
       <<"bake", "NORMAL">>, <<"convert", "NORMAL">>,
       <<"separate">>, <<"material">>, <<"cleanup">> >>
AlphaProcessed(image) == image.pixels \in {"blank+alpha", "baked+alpha"}

\* C28: the steps of a run are taken in the fixed order preparation, setup,
\* then bake, alpha post-processing and conversion for diffuse, bake and
\* conversion for normal, then separation, material, cleanup: a run is at any
\* time a prefix of it and a run that ends well is the whole of it.  The
\* buffer handed to the converter for diffuse has been through the alpha
\* post-processing, and the normal buffer never is.
C28_FixedStepOrder ==
    /\ Len(log) <= Len(FixedOrder)
    /\ StepsOf(log) = SubSeq(FixedOrder, 1, Len(log))
    /\ pc = "done" => Len(log) = Len(FixedOrder)
    /\ (pc = "convert" /\ CurType = "DIFFUSE" /\ args.alpha_mode = "CONSTANT")
         => AlphaProcessed(images["DIFFUSE"])
    /\ (pc = "convert" /\ CurType = "DIFFUSE")
         => (log[Len(log) - 1] = <<"alpha", "DIFFUSE">> /\ log[Len(log)] = <<"save", "DIFFUSE", "ok">>)
    /\ ~AlphaProcessed(images["NORMAL"])

\* C28 witness: a run ended well whose diffuse buffer was given a constant
\* alpha after its bake and whose normal buffer was baked and left alone.
C28_Witness ==
    /\ pc = "done"
    /\ args.alpha_mode = "CONSTANT"
    /\ Len(objects) > 1
    /\ StepsOf(log) = FixedOrder
    /\ log[3] = <<"bake", "DIFFUSE", "ok">>
    /\ log[7] = <<"bake", "NORMAL", "ok">>
    /\ images["DIFFUSE"].pixels = "baked+alpha"
    /\ images["NORMAL"].pixels = "baked"

\* C29: run_pipeline works on duplicates only: no step changes the name, the
\* mesh data with its UV layers, or the material slots of a source object, so
\* after a successful run the sources are as they were; and a call with an
\* empty list returns (None, None) and changes nothing of the scene.
C29_SourcesUntouched ==
    [][/\ \A i \in 1..Len(objects) : scene_objs'[objects[i]] = scene_objs[objects[i]]
       /\ (pc = "start" /\ objects = <<>>) =>
            /\ pc' = "returned_none"
            /\ ret'.kind = "none"
            /\ UNCHANGED <<scene_objs, materials, images, active, selected, engine, fs>>]_vars

\* C29 witness: a run of one object ended well; the source still has its UV
\* layer and its slot, the object returned has neither.
C29_Witness ==
    /\ pc = "done"
    /\ Len(objects) = 1
    /\ ret.objs # objects
    /\ scene_objs[objects[1]].name = <<SourceNames[1]>>
    /\ scene_objs[objects[1]].uv_layers = <<"UVMap">>
    /\ scene_objs[objects[1]].mats = << <<"M1">> >>
    /\ scene_objs[ret.objs[1]].uv_layers # scene_objs[objects[1]].uv_layers
    /\ scene_objs[ret.objs[1]].mats # scene_objs[objects[1]].mats

====
